---- MODULE Spec2Model ----
(***************************************************************************)
(* The proof coordinator of zkevm-chain: the task queue, the gossip merge, *)
(* the claim race and the duty cycle of prover/src/shared_state.rs, with   *)
(* the request data model of common/src/prover.rs.                         *)
(***************************************************************************)
EXTENDS Integers, Sequences, FiniteSets, TLC

\* ------------------------------------------------------------------------
\* Bounds of the model
\* ------------------------------------------------------------------------

\* number of `proof` requests the clients send in one behaviour
MaxCalls == 2

\* timeout periods a compute is followed for
MaxPeriods == 2

\* the nodes of the cluster
Nodes == {1, 2}

\* the values of MAX_TASKS the nodes are started with (0 disables pruning)
MaxTasksChoices == {0, 2}

\* ------------------------------------------------------------------------
\* Data model (common/src/prover.rs)
\* ------------------------------------------------------------------------

\* node ids are strings, modelled as sequences of character codes
NodeId(n) == IF n = 1 THEN <<97, 97>> ELSE <<98, 98>>

\* String comparison `a > b` of Rust: lexicographic, a proper prefix is less
RECURSIVE StrGreater(_, _)
StrGreater(a, b) ==
    IF a = <<>> THEN FALSE
    ELSE IF b = <<>> THEN TRUE
    ELSE IF Head(a) # Head(b) THEN Head(a) > Head(b)
    ELSE StrGreater(Tail(a), Tail(b))

BaseInstance ==
    [ l1_signal_service |-> "7a20", l2_signal_service |-> "1007",
      l2_contract |-> "1001", meta_hash |-> "e7c4", block_hash |-> "b58d",
      parent_hash |-> "2d6f", signal_root |-> "25f5", graffiti |-> "6162",
      prover |-> "7099", gas_used |-> 100, parent_gas_used |-> 90,
      block_max_gas_limit |-> 6000000, max_transactions_per_block |-> 79,
      max_bytes_per_tx_list |-> 120000 ]

BaseOptions ==
    [ circuit |-> "super", block |-> 1, rpc |-> "http://x",
      protocol_instance |-> BaseInstance, retry |-> FALSE, param |-> "None",
      mock |-> TRUE, aggregate |-> FALSE, mock_feedback |-> FALSE,
      verify_proof |-> FALSE ]

\* impl PartialEq for ProofRequestOptions
\* an equality that also compares the retry flag
OptEqWithRetry(self, other) == self = other

OptEq(self, other) ==
    /\ self.block = other.block
    /\ self.protocol_instance.prover = other.protocol_instance.prover
    /\ self.protocol_instance.l1_signal_service = other.protocol_instance.l1_signal_service
    /\ self.protocol_instance.l2_signal_service = other.protocol_instance.l2_signal_service
    /\ self.protocol_instance.l2_contract = other.protocol_instance.l2_contract
    /\ self.protocol_instance.block_hash = other.protocol_instance.block_hash
    /\ self.protocol_instance.parent_hash = other.protocol_instance.parent_hash
    /\ self.protocol_instance.meta_hash = other.protocol_instance.meta_hash
    /\ self.protocol_instance.signal_root = other.protocol_instance.signal_root
    /\ self.protocol_instance.graffiti = other.protocol_instance.graffiti
    /\ self.protocol_instance.gas_used = other.protocol_instance.gas_used
    /\ self.protocol_instance.parent_gas_used = other.protocol_instance.parent_gas_used
    /\ self.protocol_instance.max_bytes_per_tx_list = other.protocol_instance.max_bytes_per_tx_list
    /\ self.protocol_instance.block_max_gas_limit = other.protocol_instance.block_max_gas_limit
    /\ self.protocol_instance.max_transactions_per_block = other.protocol_instance.max_transactions_per_block
    /\ self.rpc = other.rpc
    /\ self.param = other.param
    /\ self.circuit = other.circuit
    /\ self.mock = other.mock
    /\ self.aggregate = other.aggregate

\* Option<ProofRequestOptions>::None
NoOptions == [BaseOptions EXCEPT !.circuit = "", !.block = 0, !.rpc = ""]

\* Proofs::default()
NoProofs == [gas_limit |-> 0, k |-> 0, proof |-> FALSE, agg_k |-> 0, agg_proof |-> FALSE, gas |-> 0]

\* Option<Result<Proofs, String>>
NoResult == [tag |-> "None", msg |-> "", proofs |-> NoProofs]
OkResult(p) == [tag |-> "Ok", msg |-> "", proofs |-> p]
ErrResult(m) == [tag |-> "Err", msg |-> m, proofs |-> NoProofs]

\* the requests the clients of the cluster send: O1 with retry set, and a
\* request for another block without retry
Requests ==
    { [BaseOptions EXCEPT !.retry = TRUE],
      [BaseOptions EXCEPT !.block = 2] }

\* the nodes the clients send their requests to
ClientNodes == {1}

\* requests equal to O1 up to the flags that are not part of the identity
FlagVariants ==
    { [BaseOptions EXCEPT !.retry = TRUE],
      [BaseOptions EXCEPT !.mock_feedback = TRUE],
      [BaseOptions EXCEPT !.verify_proof = TRUE] }

\* requests that differ from O1 in one field of the identity
IdentityVariants ==
    { [BaseOptions EXCEPT !.block = 2],
      [BaseOptions EXCEPT !.block = 3],
      [BaseOptions EXCEPT !.rpc = "http://y"],
      [BaseOptions EXCEPT !.param = "./params"],
      [BaseOptions EXCEPT !.circuit = "pi"],
      [BaseOptions EXCEPT !.mock = FALSE],
      [BaseOptions EXCEPT !.aggregate = TRUE],
      [BaseOptions EXCEPT !.protocol_instance.prover = "0000"],
      [BaseOptions EXCEPT !.protocol_instance.l1_signal_service = "0000"],
      [BaseOptions EXCEPT !.protocol_instance.l2_signal_service = "0000"],
      [BaseOptions EXCEPT !.protocol_instance.l2_contract = "0000"],
      [BaseOptions EXCEPT !.protocol_instance.block_hash = "0000"],
      [BaseOptions EXCEPT !.protocol_instance.parent_hash = "0000"],
      [BaseOptions EXCEPT !.protocol_instance.meta_hash = "0000"],
      [BaseOptions EXCEPT !.protocol_instance.signal_root = "0000"],
      [BaseOptions EXCEPT !.protocol_instance.graffiti = "0000"],
      [BaseOptions EXCEPT !.protocol_instance.gas_used = 0],
      [BaseOptions EXCEPT !.protocol_instance.parent_gas_used = 0],
      [BaseOptions EXCEPT !.protocol_instance.max_bytes_per_tx_list = 0],
      [BaseOptions EXCEPT !.protocol_instance.block_max_gas_limit = 0],
      [BaseOptions EXCEPT !.protocol_instance.max_transactions_per_block = 0] }

\* the requests the identity of a task is tried with
EqRequests == {BaseOptions} \cup FlagVariants \cup IdentityVariants

\* the requests the clients of a single node send: O1 with and without
\* retry, a block no circuit parameters fit, an unknown circuit, and real
\* proofs without and with aggregation
SoloRequests ==
    { BaseOptions,
      [BaseOptions EXCEPT !.retry = TRUE],
      [BaseOptions EXCEPT !.block = 3],
      [BaseOptions EXCEPT !.circuit = "pi"],
      [BaseOptions EXCEPT !.mock = FALSE],
      [BaseOptions EXCEPT !.mock = FALSE, !.aggregate = TRUE] }

VARIABLES
    tasks,        \* RwState.tasks of each node
    pk_cache,     \* RwState.pk_cache of each node (the set of its keys)
    pending,      \* RwState.pending of each node
    obtained,     \* RwState.obtained of each node
    node_lookup,  \* RoState.node_lookup of each node is Some
    max_tasks,    \* MAX_TASKS of the deployment
    pc,           \* position of each node's duty cycle loop
    snap,         \* duty_cycle: the snapshotted tasks still to try
    addrs,        \* the resolved peers still to visit
    task_options, \* duty_cycle: the clone of pending under computation
    task_result,  \* duty_cycle: the outcome of the compute
    prune_due,    \* a handler of the node has prune_tasks still to run
    calls,        \* number of proof requests served
    reply,        \* the last get_or_enqueue call and what it returned
    full_node,    \* FULL_NODE of each node: aggregator (TRUE) or worker
    elapsed,      \* timeout periods the compute of each node has run for
    gen_pc,       \* position of each caller of gen_pk on the state of node 1
    gen_count,    \* runs of keygen_vk/keygen_pk per cache key on node 1
    lock,         \* the caller of gen_pk that holds the mutex of node 1, or 0
    pk_entry,     \* pk_cache of node 1: the run that made the key of an entry
    gen_ret       \* the key each caller of gen_pk holds: the run that made it

vars == <<tasks, pk_cache, pending, obtained, node_lookup, max_tasks, pc, snap,
          addrs, task_options, task_result, prune_due, calls, reply, full_node,
          elapsed, gen_pc, gen_count, lock, pk_entry, gen_ret>>


\* ------------------------------------------------------------------------
\* Helpers over the task list
\* ------------------------------------------------------------------------

\* rw.tasks.iter_mut().find(|e| e.options == *options): index of the first
\* task with equal options, 0 when there is none
FindTask(ts, options) ==
    IF \E i \in 1..Len(ts) : OptEq(ts[i].options, options)
    THEN CHOOSE i \in 1..Len(ts) :
            /\ OptEq(ts[i].options, options)
            /\ \A j \in 1..(i - 1) : ~OptEq(ts[j].options, options)
    ELSE 0

\* ProofRequest { options, result: None, edition: 0 }
NewTaskEditionOne(options) ==
    [options |-> options, result |-> NoResult, edition |-> 1]

NewTask(options) == [options |-> options, result |-> NoResult, edition |-> 0]

\* tasks.sort_by(block): stable insertion of a task into a sorted list
RECURSIVE InsertByBlock(_, _)
InsertByBlock(t, sorted) ==
    IF sorted = <<>> THEN <<t>>
    ELSE IF Head(sorted).options.block <= t.options.block
         THEN <<Head(sorted)>> \o InsertByBlock(t, Tail(sorted))
         ELSE <<t>> \o sorted

RECURSIVE SortByBlock(_)
SortByBlock(ts) ==
    IF ts = <<>> THEN <<>>
    ELSE InsertByBlock(ts[Len(ts)], SortByBlock(SubSeq(ts, 1, Len(ts) - 1)))

\* a prune_tasks that drops the first half of the list as it is
PruneTasksUnsorted(ts, max) ==
    IF max # 0 /\ Len(ts) >= max
    THEN SubSeq(ts, (max \div 2) + 1, Len(ts))
    ELSE ts

\* prune_tasks: when the list is full, sort by block and drop the first half
PruneTasks(ts, max) ==
    IF max # 0 /\ Len(ts) >= max
    THEN SubSeq(SortByBlock(ts), (max \div 2) + 1, Len(ts))
    ELSE ts

\* merge_tasks that copies a peer task without looking for it in the list
MergeOneAlwaysPush(ts, peer_task) == Append(ts, peer_task)

\* merge_tasks without the comparison of the editions
MergeOneNoEditionCheck(ts, peer_task) ==
    LET i == FindTask(ts, peer_task.options) IN
    IF i # 0
    THEN [ts EXCEPT ![i] = [@ EXCEPT !.edition = peer_task.edition,
                                     !.result = peer_task.result]]
    ELSE Append(ts, peer_task)

\* merge_tasks that also copies from a peer task of the same edition
MergeOneCopiesOnEqual(ts, peer_task) ==
    LET i == FindTask(ts, peer_task.options) IN
    IF i # 0
    THEN IF ts[i].edition > peer_task.edition
         THEN ts
         ELSE [ts EXCEPT ![i] = [@ EXCEPT !.edition = peer_task.edition,
                                          !.result = peer_task.result]]
    ELSE Append(ts, peer_task)

\* merge_tasks that enqueues a task it does not hold as a new task
MergeOnePushesFresh(ts, peer_task) ==
    LET i == FindTask(ts, peer_task.options) IN
    IF i # 0
    THEN IF ts[i].edition >= peer_task.edition
         THEN ts
         ELSE [ts EXCEPT ![i] = [@ EXCEPT !.edition = peer_task.edition,
                                          !.result = peer_task.result]]
    ELSE Append(ts, NewTask(peer_task.options))

\* one iteration of the loop of merge_tasks
MergeOne(ts, peer_task) ==
    LET i == FindTask(ts, peer_task.options) IN
    IF i # 0
    THEN IF ts[i].edition >= peer_task.edition
         THEN ts
         ELSE [ts EXCEPT ![i] = [@ EXCEPT !.edition = peer_task.edition,
                                          !.result = peer_task.result]]
    ELSE Append(ts, peer_task)

\* merge_tasks: the tasks of node_info merged into the local list, in order
RECURSIVE MergeTasks(_, _)
MergeTasks(ts, peer_tasks) ==
    IF peer_tasks = <<>> THEN ts
    ELSE MergeTasks(MergeOne(ts, Head(peer_tasks)), Tail(peer_tasks))

\* a snapshot that takes every task, with or without result
RECURSIVE AllOptions(_)
AllOptions(ts) ==
    IF ts = <<>> THEN <<>> ELSE <<Head(ts).options>> \o AllOptions(Tail(ts))

\* a snapshot that also takes the tasks that failed
RECURSIVE PendingOptionsWithFailed(_)
PendingOptionsWithFailed(ts) ==
    IF ts = <<>> THEN <<>>
    ELSE IF Head(ts).result.tag \in {"None", "Err"}
         THEN <<Head(ts).options>> \o PendingOptionsWithFailed(Tail(ts))
         ELSE PendingOptionsWithFailed(Tail(ts))

\* duty_cycle: options of the tasks without result, in queue order
RECURSIVE PendingOptions(_)
PendingOptions(ts) ==
    IF ts = <<>> THEN <<>>
    ELSE IF Head(ts).result.tag = "None"
         THEN <<Head(ts).options>> \o PendingOptions(Tail(ts))
         ELSE PendingOptions(Tail(ts))

\* to_socket_addrs: the lookup name resolves to every node, the node itself
\* included
Resolve == <<1, 2>>

\* ------------------------------------------------------------------------
\* The compute of one task (duty_cycle's spawned task and compute_proof)
\* ------------------------------------------------------------------------

NoFit == [block_gas_limit |-> 0, min_k |-> 0, min_k_aggregation |-> 0]

\* a table whose second arm starts one gas unit late
CircuitTableWithGap ==
    << [lo |-> 0, hi |-> 63000,
        config |-> [block_gas_limit |-> 63000, min_k |-> 20,
                    min_k_aggregation |-> 26]],
       [lo |-> 63002, hi |-> 300000,
        config |-> [block_gas_limit |-> 300000, min_k |-> 23,
                    min_k_aggregation |-> 26]] >>

\* match_circuit_params!: the arms of the match, in source order
CircuitTable ==
    << [lo |-> 0, hi |-> 63000,
        config |-> [block_gas_limit |-> 63000, min_k |-> 20,
                    min_k_aggregation |-> 26]],
       [lo |-> 63001, hi |-> 300000,
        config |-> [block_gas_limit |-> 300000, min_k |-> 23,
                    min_k_aggregation |-> 26]] >>

\* the arms of the match a gas_used value falls in
Arms(gas_used) ==
    { i \in 1..Len(CircuitTable) :
        CircuitTable[i].lo <= gas_used /\ gas_used <= CircuitTable[i].hi }

\* a lookup that takes the last arm for a gas_used value beyond the table
MatchCircuitParamsClamps(gas_used) ==
    IF Arms(gas_used) = {}
    THEN CircuitTable[Len(CircuitTable)].config
    ELSE CircuitTable[CHOOSE i \in Arms(gas_used) :
                         \A j \in Arms(gas_used) : i <= j].config

\* match_circuit_params!: the CircuitConfig of the first arm a gas_used
\* value matches, or no fit
MatchCircuitParams(gas_used) ==
    IF Arms(gas_used) = {}
    THEN NoFit
    ELSE CircuitTable[CHOOSE i \in Arms(gas_used) :
                         \A j \in Arms(gas_used) : i <= j].config

\* the gas used of the blocks 4, 5, ... of the chain
BoundaryGas == <<0, 63000, 63001, 300000, 300001>>

\* CircuitWitness::gas_used: the gas used of the block on the chain the
\* witness is fetched from
BlockGasUsed(block) ==
    IF block = 1 THEN 100
    ELSE IF block = 2 THEN 70000
    ELSE IF block \in 4..(3 + Len(BoundaryGas)) THEN BoundaryGas[block - 3]
    ELSE 1000000000

Max(a, b) == IF a > b THEN a ELSE b

\* get_or_gen_param: the source tag of the parameters
ParamPath(options, k) ==
    IF options.param = "None" THEN ToString(k) ELSE options.param

\* a compute_proof whose mock path makes an aggregation key when aggregate is set
ComputeProofMockAggregates(options, config, gas) ==
    IF options.mock
    THEN [proofs |-> [gas_limit |-> config.block_gas_limit, k |-> config.min_k,
                      proof |-> FALSE, agg_k |-> 0, agg_proof |-> FALSE,
                      gas |-> gas],
          keys |-> IF options.aggregate
                   THEN {<<options.circuit, "-agg-", "mock", config.block_gas_limit>>}
                   ELSE {},
          param_k |-> 0]
    ELSE LET universe_k == Max(config.min_k, config.min_k_aggregation)
             param_path == ParamPath(options, universe_k)
             circuit_k == IF universe_k > config.min_k THEN config.min_k
                          ELSE universe_k
             agg_k == IF universe_k > config.min_k_aggregation
                      THEN config.min_k_aggregation ELSE universe_k
             key == <<options.circuit, "", param_path, config.block_gas_limit>>
             agg_key == <<options.circuit, "-agg-", param_path, config.block_gas_limit>>
         IN  IF options.aggregate
             THEN [proofs |-> [gas_limit |-> config.block_gas_limit,
                               k |-> circuit_k, proof |-> TRUE, agg_k |-> agg_k,
                               agg_proof |-> TRUE, gas |-> gas],
                   keys |-> {key, agg_key},
                   param_k |-> universe_k]
             ELSE [proofs |-> [gas_limit |-> config.block_gas_limit,
                               k |-> circuit_k, proof |-> TRUE, agg_k |-> 0,
                               agg_proof |-> FALSE, gas |-> gas],
                   keys |-> {key},
                   param_k |-> universe_k]

\* a compute_proof whose parameters have the size of the circuit alone
ComputeProofSizedForCircuit(options, config, gas) ==
    IF options.mock
    THEN [proofs |-> [gas_limit |-> config.block_gas_limit, k |-> config.min_k,
                      proof |-> FALSE, agg_k |-> 0, agg_proof |-> FALSE,
                      gas |-> gas],
          keys |-> {},
          param_k |-> 0]
    ELSE LET universe_k == config.min_k
             param_path == ParamPath(options, universe_k)
             circuit_k == IF universe_k > config.min_k THEN config.min_k
                          ELSE universe_k
             agg_k == IF universe_k > config.min_k_aggregation
                      THEN config.min_k_aggregation ELSE universe_k
             key == <<options.circuit, "", param_path, config.block_gas_limit>>
             agg_key == <<options.circuit, "-agg-", param_path, config.block_gas_limit>>
         IN  IF options.aggregate
             THEN [proofs |-> [gas_limit |-> config.block_gas_limit,
                               k |-> circuit_k, proof |-> TRUE, agg_k |-> agg_k,
                               agg_proof |-> TRUE, gas |-> gas],
                   keys |-> {key, agg_key},
                   param_k |-> universe_k]
             ELSE [proofs |-> [gas_limit |-> config.block_gas_limit,
                               k |-> circuit_k, proof |-> TRUE, agg_k |-> 0,
                               agg_proof |-> FALSE, gas |-> gas],
                   keys |-> {key},
                   param_k |-> universe_k]

\* compute_proof: the proofs, the cache keys passed to gen_pk and the size of
\* the parameters get_or_gen_param is asked for (0: not called)
ComputeProof(options, config, gas) ==
    IF options.mock
    THEN [proofs |-> [gas_limit |-> config.block_gas_limit, k |-> config.min_k,
                      proof |-> FALSE, agg_k |-> 0, agg_proof |-> FALSE,
                      gas |-> gas],
          keys |-> {},
          param_k |-> 0]
    ELSE LET universe_k == Max(config.min_k, config.min_k_aggregation)
             param_path == ParamPath(options, universe_k)
             circuit_k == IF universe_k > config.min_k THEN config.min_k
                          ELSE universe_k
             agg_k == IF universe_k > config.min_k_aggregation
                      THEN config.min_k_aggregation ELSE universe_k
             key == <<options.circuit, "", param_path, config.block_gas_limit>>
             agg_key == <<options.circuit, "-agg-", param_path, config.block_gas_limit>>
         IN  IF options.aggregate
             THEN [proofs |-> [gas_limit |-> config.block_gas_limit,
                               k |-> circuit_k, proof |-> TRUE, agg_k |-> agg_k,
                               agg_proof |-> TRUE, gas |-> gas],
                   keys |-> {key, agg_key},
                   param_k |-> universe_k]
             ELSE [proofs |-> [gas_limit |-> config.block_gas_limit,
                               k |-> circuit_k, proof |-> TRUE, agg_k |-> 0,
                               agg_proof |-> FALSE, gas |-> gas],
                   keys |-> {key},
                   param_k |-> universe_k]

\* what the environment does to one compute: nothing, the witness fetch
\* fails, or the prover panics
Faults == {"none", "witness", "panic"}

\* the faults of the computes of the cluster
ClusterFaults == {"none", "panic"}

\* a spawned task whose panic is not converted to an Err
ComputePanicEscapes(options, fault) ==
    IF fault = "witness"
    THEN [result |-> ErrResult("witness fetch failed"), keys |-> {}]
    ELSE LET gas == BlockGasUsed(options.block)
             config == MatchCircuitParams(gas)
         IN  IF config = NoFit
             THEN [result |-> ErrResult("No circuit parameters found for block with gas used="
                                        \o ToString(gas)),
                   keys |-> {}]
             ELSE IF options.circuit # "super" \/ fault = "panic"
             THEN [result |-> NoResult, keys |-> {}]
             ELSE LET out == ComputeProof(options, config, gas)
                  IN  [result |-> OkResult(out.proofs), keys |-> out.keys]

\* a spawned task that proves the super circuit whatever the circuit tag is
ComputeAnyCircuit(options, fault) ==
    IF fault = "witness"
    THEN [result |-> ErrResult("witness fetch failed"), keys |-> {}]
    ELSE LET gas == BlockGasUsed(options.block)
             config == MatchCircuitParams(gas)
         IN  IF config = NoFit
             THEN [result |-> ErrResult("No circuit parameters found for block with gas used="
                                        \o ToString(gas)),
                   keys |-> {}]
             ELSE IF fault = "panic"
             THEN [result |-> ErrResult("prover panic"), keys |-> {}]
             ELSE LET out == ComputeProof(options, config, gas)
                  IN  [result |-> OkResult(out.proofs), keys |-> out.keys]

\* the task spawned by duty_cycle, with the conversion of a panic to Err
Compute(options, fault) ==
    IF fault = "witness"
    THEN [result |-> ErrResult("witness fetch failed"), keys |-> {}]
    ELSE LET gas == BlockGasUsed(options.block)
             config == MatchCircuitParams(gas)
         IN  IF config = NoFit
             THEN [result |-> ErrResult("No circuit parameters found for block with gas used="
                                        \o ToString(gas)),
                   keys |-> {}]
             ELSE IF options.circuit # "super"
             THEN [result |-> ErrResult("unknown circuit"), keys |-> {}]
             ELSE IF fault = "panic"
             THEN [result |-> ErrResult("prover panic"), keys |-> {}]
             ELSE LET out == ComputeProof(options, config, gas)
                  IN  [result |-> OkResult(out.proofs), keys |-> out.keys]

\* ------------------------------------------------------------------------
\* Initial state: SharedState::new on every node
\* ------------------------------------------------------------------------

NoReply == [node |-> 0, options |-> NoOptions, result |-> NoResult]

\* the tasks of one process that call compute_proof on the same SharedState
GenCallers == {1, 2}

\* requests of real proofs, whose circuits need proving keys
KeyRequests ==
    { [BaseOptions EXCEPT !.mock = FALSE],
      [BaseOptions EXCEPT !.mock = FALSE, !.aggregate = TRUE],
      [BaseOptions EXCEPT !.mock = FALSE, !.block = 2] }

\* the cache keys compute_proof passes to gen_pk for these requests
CacheKeys ==
    UNION { ComputeProof(o, MatchCircuitParams(BlockGasUsed(o.block)),
                         BlockGasUsed(o.block)).keys : o \in KeyRequests }

\* a caller that is not inside gen_pk
NoGenPk == [state |-> "idle", key |-> <<"", "", "", 0>>]

Init ==
    /\ tasks = [n \in Nodes |-> <<>>]
    /\ pk_cache = [n \in Nodes |-> {}]
    /\ pending = [n \in Nodes |-> NoOptions]
    /\ obtained = [n \in Nodes |-> FALSE]
    /\ node_lookup = [n \in Nodes |-> TRUE]
    /\ max_tasks \in MaxTasksChoices
    /\ pc = [n \in Nodes |-> "idle"]
    /\ snap = [n \in Nodes |-> <<>>]
    /\ addrs = [n \in Nodes |-> <<>>]
    /\ task_options = [n \in Nodes |-> NoOptions]
    /\ task_result = [n \in Nodes |-> NoResult]
    /\ prune_due = [n \in Nodes |-> FALSE]
    /\ calls = 0
    /\ reply = NoReply
    /\ full_node = [n \in Nodes |-> FALSE]
    /\ elapsed = [n \in Nodes |-> 0]
    /\ gen_pc = [c \in GenCallers |-> NoGenPk]
    /\ gen_count = [k \in CacheKeys |-> 0]
    /\ lock = 0
    /\ pk_entry = [k \in CacheKeys |-> 0]
    /\ gen_ret = [c \in GenCallers |-> 0]

\* ------------------------------------------------------------------------
\* The proof request handler
\* ------------------------------------------------------------------------

\* a retry condition that does not look at the stored result
ShouldRetryAnyResult(options, task) == options.retry

\* get_or_enqueue: the retry condition `options.retry && result.is_err()`
ShouldRetry(options, task) == options.retry /\ task.result.tag = "Err"

\* a retry that clears the result and keeps the edition
RetryTaskSameEdition(task) == [task EXCEPT !.result = NoResult]

\* a retry that starts the task over at edition 0
RetryTaskRestarts(task) == [task EXCEPT !.result = NoResult, !.edition = 0]

\* get_or_enqueue: the task made a candidate of duty_cycle again
RetryTask(task) ==
    [task EXCEPT !.result = NoResult, !.edition = task.edition + 1]

\* get_or_enqueue: one critical section
GetOrEnqueue(n, options) ==
    /\ calls < MaxCalls
    /\ calls' = calls + 1
    /\ LET i == FindTask(tasks[n], options) IN
       IF i # 0
       THEN LET task == tasks[n][i] IN
            IF task.result.tag # "None"
            THEN IF ShouldRetry(options, task)
                 THEN /\ tasks' = [tasks EXCEPT ![n][i] = RetryTask(task)]
                      /\ reply' = [node |-> n, options |-> options, result |-> NoResult]
                 ELSE /\ tasks' = tasks
                      /\ reply' = [node |-> n, options |-> options, result |-> task.result]
            ELSE /\ tasks' = tasks
                 /\ reply' = [node |-> n, options |-> options, result |-> NoResult]
       ELSE /\ tasks' = [tasks EXCEPT ![n] = Append(@, NewTask(options))]
            /\ reply' = [node |-> n, options |-> options, result |-> NoResult]
    /\ prune_due' = [prune_due EXCEPT ![n] =
                        @ \/ (max_tasks # 0 /\ FindTask(tasks[n], options) = 0)]
    /\ UNCHANGED <<lock, pk_entry, gen_ret, full_node, elapsed, gen_pc, gen_count,
                   pk_cache, pending, obtained, node_lookup, max_tasks, pc, snap,
                   addrs, task_options, task_result>>

\* prune_tasks run by the handler after it pushed a task
HandlerPrune(n) ==
    /\ prune_due[n]
    /\ prune_due' = [prune_due EXCEPT ![n] = FALSE]
    /\ tasks' = [tasks EXCEPT ![n] = PruneTasks(@, max_tasks)]
    /\ UNCHANGED <<lock, pk_entry, gen_ret, full_node, elapsed, gen_pc, gen_count,
                   pk_cache, pending, obtained, node_lookup, max_tasks, pc, snap,
                   addrs, task_options, task_result, calls, reply>>

\* ------------------------------------------------------------------------
\* The duty cycle loop of a worker
\* ------------------------------------------------------------------------

\* a main that runs the duty cycle loop whatever FULL_NODE is
DcStartAnyRole(n) ==
    /\ pc[n] = "idle"
    /\ pc' = [pc EXCEPT ![n] = "merge"]
    /\ addrs' = [addrs EXCEPT ![n] = IF node_lookup[n] THEN Resolve ELSE <<>>]
    /\ UNCHANGED <<lock, pk_entry, gen_ret, full_node, elapsed, gen_pc, gen_count,
                   tasks, pk_cache, pending, obtained, node_lookup, max_tasks,
                   snap, task_options, task_result, prune_due, calls, reply>>

\* the loop of main calls duty_cycle, which enters merge_tasks_from_peers
DcStart(n) ==
    /\ ~full_node[n]
    /\ pc[n] = "idle"
    /\ pc' = [pc EXCEPT ![n] = "merge"]
    /\ addrs' = [addrs EXCEPT ![n] = IF node_lookup[n] THEN Resolve ELSE <<>>]
    /\ UNCHANGED <<lock, pk_entry, gen_ret, full_node, elapsed, gen_pc, gen_count,
                   tasks, pk_cache, pending, obtained, node_lookup, max_tasks,
                   snap, task_options, task_result, prune_due, calls, reply>>

\* merge_tasks_from_peers: the info call to the next peer answers, and the
\* peer's tasks are merged unless the peer is the node itself
DcMergePeer(n) ==
    /\ pc[n] = "merge"
    /\ addrs[n] # <<>>
    /\ LET p == Head(addrs[n]) IN
       IF NodeId(p) = NodeId(n)
       THEN /\ pc' = pc
            /\ tasks' = tasks
       ELSE /\ pc' = [pc EXCEPT ![n] = IF max_tasks # 0 THEN "merge_prune" ELSE "merge"]
            /\ tasks' = [tasks EXCEPT ![n] = MergeTasks(@, tasks[p])]
    /\ addrs' = [addrs EXCEPT ![n] = Tail(@)]
    /\ UNCHANGED <<lock, pk_entry, gen_ret, full_node, elapsed, gen_pc, gen_count,
                   pk_cache, pending, obtained, node_lookup, max_tasks, snap,
                   task_options, task_result, prune_due, calls, reply>>

\* prune_tasks at the end of merge_tasks
DcMergePrune(n) ==
    /\ pc[n] = "merge_prune"
    /\ pc' = [pc EXCEPT ![n] = "merge"]
    /\ tasks' = [tasks EXCEPT ![n] = PruneTasks(@, max_tasks)]
    /\ UNCHANGED <<lock, pk_entry, gen_ret, full_node, elapsed, gen_pc, gen_count,
                   pk_cache, pending, obtained, node_lookup, max_tasks, snap,
                   addrs, task_options, task_result, prune_due, calls, reply>>

\* merge_tasks_from_peers: to_socket_addrs fails, no peer is resolved and
\* the error is returned to duty_cycle
DcLookupFail(n) ==
    /\ ~full_node[n]
    /\ node_lookup[n]
    /\ pc[n] = "idle"
    /\ pc' = [pc EXCEPT ![n] = "merge_err"]
    /\ UNCHANGED <<lock, pk_entry, gen_ret, full_node, elapsed, gen_pc, gen_count,
                   tasks, pk_cache, pending, obtained, node_lookup, max_tasks,
                   snap, addrs, task_options, task_result, prune_due, calls,
                   reply>>

\* merge_tasks_from_peers: the info call to the next peer fails and the
\* error is returned to duty_cycle; the peers behind it are not visited
DcMergeFail(n) ==
    /\ pc[n] = "merge"
    /\ addrs[n] # <<>>
    /\ pc' = [pc EXCEPT ![n] = "merge_err"]
    /\ UNCHANGED <<lock, pk_entry, gen_ret, full_node, elapsed, gen_pc, gen_count,
                   tasks, pk_cache, pending, obtained, node_lookup, max_tasks,
                   snap, addrs, task_options, task_result, prune_due, calls,
                   reply>>

\* a duty_cycle that goes on to the claim loop after a failed merge
DcSkipTickGoesOn(n) ==
    /\ pc[n] = "merge_err"
    /\ pc' = [pc EXCEPT ![n] = "claim"]
    /\ addrs' = [addrs EXCEPT ![n] = <<>>]
    /\ snap' = [snap EXCEPT ![n] = PendingOptions(tasks[n])]
    /\ UNCHANGED <<lock, pk_entry, gen_ret, full_node, elapsed, gen_pc, gen_count,
                   tasks, pk_cache, pending, obtained, node_lookup, max_tasks,
                   task_options, task_result, prune_due, calls, reply>>

\* a merge_tasks_from_peers that goes on to the next peer after a failed
\* info call
DcSkipTickNextPeer(n) ==
    /\ pc[n] = "merge_err"
    /\ pc' = [pc EXCEPT ![n] = IF addrs[n] = <<>> THEN "idle" ELSE "merge"]
    /\ addrs' = [addrs EXCEPT ![n] = IF @ = <<>> THEN <<>> ELSE Tail(@)]
    /\ UNCHANGED <<lock, pk_entry, gen_ret, full_node, elapsed, gen_pc, gen_count,
                   tasks, pk_cache, pending, obtained, node_lookup, max_tasks,
                   snap, task_options, task_result, prune_due, calls, reply>>

\* duty_cycle logs the error of merge_tasks_from_peers and returns
DcSkipTick(n) ==
    /\ pc[n] = "merge_err"
    /\ pc' = [pc EXCEPT ![n] = "idle"]
    /\ addrs' = [addrs EXCEPT ![n] = <<>>]
    /\ UNCHANGED <<lock, pk_entry, gen_ret, full_node, elapsed, gen_pc, gen_count,
                   tasks, pk_cache, pending, obtained, node_lookup, max_tasks,
                   snap, task_options, task_result, prune_due, calls, reply>>

\* duty_cycle after the merge: return when busy, else snapshot the tasks
\* without result
DcCheck(n) ==
    /\ pc[n] = "merge"
    /\ addrs[n] = <<>>
    /\ IF pending[n] # NoOptions \/ obtained[n]
       THEN /\ pc' = [pc EXCEPT ![n] = "idle"]
            /\ snap' = snap
       ELSE /\ pc' = [pc EXCEPT ![n] = "claim"]
            /\ snap' = [snap EXCEPT ![n] = PendingOptions(tasks[n])]
    /\ UNCHANGED <<lock, pk_entry, gen_ret, full_node, elapsed, gen_pc, gen_count,
                   tasks, pk_cache, pending, obtained, node_lookup, max_tasks,
                   addrs, task_options, task_result, prune_due, calls, reply>>

\* an obtain_task that resolves the peers without looking at node_lookup
DcSetPendingAlwaysResolves(n) ==
    /\ pc[n] = "claim"
    /\ snap[n] # <<>>
    /\ pending' = [pending EXCEPT ![n] = Head(snap[n])]
    /\ snap' = [snap EXCEPT ![n] = Tail(@)]
    /\ addrs' = [addrs EXCEPT ![n] = Resolve]
    /\ pc' = [pc EXCEPT ![n] = "obtain"]
    /\ UNCHANGED <<lock, pk_entry, gen_ret, full_node, elapsed, gen_pc, gen_count,
                   tasks, pk_cache, obtained, node_lookup, max_tasks,
                   task_options, task_result, prune_due, calls, reply>>

\* a claim loop that tries the snapshotted tasks from the last to the first
DcSetPendingTakesLast(n) ==
    /\ pc[n] = "claim"
    /\ snap[n] # <<>>
    /\ pending' = [pending EXCEPT ![n] = snap[n][Len(snap[n])]]
    /\ snap' = [snap EXCEPT ![n] = SubSeq(@, 1, Len(@) - 1)]
    /\ addrs' = [addrs EXCEPT ![n] = IF node_lookup[n] THEN Resolve ELSE <<>>]
    /\ pc' = [pc EXCEPT ![n] = "obtain"]
    /\ UNCHANGED <<lock, pk_entry, gen_ret, full_node, elapsed, gen_pc, gen_count,
                   tasks, pk_cache, obtained, node_lookup, max_tasks,
                   task_options, task_result, prune_due, calls, reply>>

\* the claim loop takes the next snapshotted task, records it as pending and
\* enters obtain_task
DcSetPending(n) ==
    /\ pc[n] = "claim"
    /\ snap[n] # <<>>
    /\ pending' = [pending EXCEPT ![n] = Head(snap[n])]
    /\ snap' = [snap EXCEPT ![n] = Tail(@)]
    /\ addrs' = [addrs EXCEPT ![n] = IF node_lookup[n] THEN Resolve ELSE <<>>]
    /\ pc' = [pc EXCEPT ![n] = "obtain"]
    /\ UNCHANGED <<lock, pk_entry, gen_ret, full_node, elapsed, gen_pc, gen_count,
                   tasks, pk_cache, obtained, node_lookup, max_tasks,
                   task_options, task_result, prune_due, calls, reply>>

\* a verdict that does not look at the obtained flag of the peer
ObtainContinueIgnoresObtained(self_id, task, peer_id, peer_task, peer_obtained) ==
    IF peer_id = self_id THEN TRUE
    ELSE IF peer_task # NoOptions /\ OptEq(peer_task, task)
         THEN StrGreater(peer_id, self_id)
         ELSE TRUE

\* a verdict that lets the node with the greater id go on
ObtainContinueGreaterWins(self_id, task, peer_id, peer_task, peer_obtained) ==
    IF peer_id = self_id THEN TRUE
    ELSE IF peer_task # NoOptions /\ OptEq(peer_task, task)
         THEN ~peer_obtained /\ StrGreater(self_id, peer_id)
         ELSE TRUE

\* a verdict that gives the task up to any peer that holds it
ObtainContinueAlwaysYields(self_id, task, peer_id, peer_task, peer_obtained) ==
    IF peer_id = self_id THEN TRUE
    ELSE ~(peer_task # NoOptions /\ OptEq(peer_task, task))

\* obtain_task: the verdict on the status of one peer; TRUE to go on to the
\* next peer, FALSE when the task is lost
ObtainContinue(self_id, task, peer_id, peer_task, peer_obtained) ==
    IF peer_id = self_id THEN TRUE
    ELSE IF peer_task # NoOptions /\ OptEq(peer_task, task)
         THEN ~peer_obtained /\ StrGreater(peer_id, self_id)
         ELSE TRUE

\* obtain_task: the status call to the next peer answers
DcObtainPeer(n) ==
    /\ pc[n] = "obtain"
    /\ addrs[n] # <<>>
    /\ LET p == Head(addrs[n]) IN
       IF ObtainContinue(NodeId(n), pending[n], NodeId(p), pending[p], obtained[p])
       THEN /\ pc' = pc
            /\ addrs' = [addrs EXCEPT ![n] = Tail(@)]
       ELSE /\ pc' = [pc EXCEPT ![n] = "lost"]
            /\ addrs' = [addrs EXCEPT ![n] = <<>>]
    /\ UNCHANGED <<lock, pk_entry, gen_ret, full_node, elapsed, gen_pc, gen_count,
                   tasks, pk_cache, pending, obtained, node_lookup, max_tasks,
                   snap, task_options, task_result, prune_due, calls, reply>>

\* obtain_task: the lookup or the status call fails; the spawned task
\* panics on the Err and its JoinHandle yields an error
DcObtainFail(n) ==
    /\ pc[n] = "obtain"
    /\ addrs[n] # <<>>
    /\ pc' = [pc EXCEPT ![n] = "obtain_err"]
    /\ addrs' = [addrs EXCEPT ![n] = <<>>]
    /\ UNCHANGED <<lock, pk_entry, gen_ret, full_node, elapsed, gen_pc, gen_count,
                   tasks, pk_cache, pending, obtained, node_lookup, max_tasks,
                   snap, task_options, task_result, prune_due, calls, reply>>

\* a claim loop that goes on to the next task with pending still set
DcLostKeepsPending(n) ==
    /\ pc[n] \in {"lost", "obtain_err"}
    /\ pc' = [pc EXCEPT ![n] = "claim"]
    /\ UNCHANGED <<lock, pk_entry, gen_ret, full_node, elapsed, gen_pc, gen_count,
                   tasks, pk_cache, pending, obtained, node_lookup, max_tasks,
                   snap, addrs, task_options, task_result, prune_due, calls,
                   reply>>

\* a claim loop that lets the error of obtain_task end the duty cycle
DcLostErrorEscapes(n) ==
    /\ pc[n] \in {"lost", "obtain_err"}
    /\ IF pc[n] = "obtain_err"
       THEN /\ pending' = pending
            /\ pc' = [pc EXCEPT ![n] = "idle"]
       ELSE /\ pending' = [pending EXCEPT ![n] = NoOptions]
            /\ pc' = [pc EXCEPT ![n] = "claim"]
    /\ UNCHANGED <<lock, pk_entry, gen_ret, full_node, elapsed, gen_pc, gen_count,
                   tasks, pk_cache, obtained, node_lookup, max_tasks, snap,
                   addrs, task_options, task_result, prune_due, calls, reply>>

\* claim loop after a lost or failed claim: clear pending, continue with
\* the next task
DcLost(n) ==
    /\ pc[n] \in {"lost", "obtain_err"}
    /\ pending' = [pending EXCEPT ![n] = NoOptions]
    /\ pc' = [pc EXCEPT ![n] = "claim"]
    /\ UNCHANGED <<lock, pk_entry, gen_ret, full_node, elapsed, gen_pc, gen_count,
                   tasks, pk_cache, obtained, node_lookup, max_tasks, snap,
                   addrs, task_options, task_result, prune_due, calls, reply>>

\* obtain_task returned true: set obtained, leave the loop, clone pending
DcWon(n) ==
    /\ pc[n] = "obtain"
    /\ addrs[n] = <<>>
    /\ obtained' = [obtained EXCEPT ![n] = TRUE]
    /\ task_options' = [task_options EXCEPT ![n] = pending[n]]
    /\ elapsed' = [elapsed EXCEPT ![n] = 0]
    /\ pc' = [pc EXCEPT ![n] = "compute"]
    /\ UNCHANGED <<lock, pk_entry, gen_ret, full_node, gen_pc, gen_count,
                   tasks, pk_cache, pending, node_lookup, max_tasks, snap,
                   addrs, task_result, prune_due, calls, reply>>

\* the claim loop ended with no task obtained: pending is None, return
DcNothing(n) ==
    /\ pc[n] = "claim"
    /\ snap[n] = <<>>
    /\ pc' = [pc EXCEPT ![n] = "idle"]
    /\ UNCHANGED <<lock, pk_entry, gen_ret, full_node, elapsed, gen_pc, gen_count,
                   tasks, pk_cache, pending, obtained, node_lookup, max_tasks,
                   snap, addrs, task_options, task_result, prune_due, calls,
                   reply>>

\* the spawned compute runs outside the lock; gen_pk caches the keys
DcCompute(n, fault) ==
    /\ pc[n] = "compute"
    /\ LET out == Compute(task_options[n], fault) IN
       /\ task_result' = [task_result EXCEPT ![n] = out.result]
       /\ pk_cache' = [pk_cache EXCEPT ![n] = @ \cup out.keys]
    /\ pc' = [pc EXCEPT ![n] = "publish"]
    /\ UNCHANGED <<lock, pk_entry, gen_ret, full_node, elapsed, gen_pc, gen_count,
                   tasks, pending, obtained, node_lookup, max_tasks, snap,
                   addrs, task_options, prune_due, calls, reply>>

\* a publication that clears pending and forgets obtained
DcPublishKeepsObtained(n) ==
    /\ pc[n] = "publish"
    /\ pending' = [pending EXCEPT ![n] = NoOptions]
    /\ LET i == FindTask(tasks[n], task_options[n]) IN
       IF i # 0
       THEN tasks' = [tasks EXCEPT ![n][i] =
                         [@ EXCEPT !.result = task_result[n],
                                   !.edition = @ + 1]]
       ELSE tasks' = tasks
    /\ task_options' = [task_options EXCEPT ![n] = NoOptions]
    /\ task_result' = [task_result EXCEPT ![n] = NoResult]
    /\ pc' = [pc EXCEPT ![n] = "idle"]
    /\ UNCHANGED <<lock, pk_entry, gen_ret, full_node, elapsed, gen_pc, gen_count,
                   pk_cache, obtained, node_lookup, max_tasks, snap, addrs,
                   prune_due, calls, reply>>

\* a publication that stores the result and leaves the edition for later
DcPublishResultOnly(n) ==
    /\ pc[n] = "publish"
    /\ pending' = [pending EXCEPT ![n] = NoOptions]
    /\ obtained' = [obtained EXCEPT ![n] = FALSE]
    /\ LET i == FindTask(tasks[n], task_options[n]) IN
       IF i # 0
       THEN tasks' = [tasks EXCEPT ![n][i] =
                         [@ EXCEPT !.result = task_result[n]]]
       ELSE tasks' = tasks
    /\ task_options' = [task_options EXCEPT ![n] = NoOptions]
    /\ task_result' = [task_result EXCEPT ![n] = NoResult]
    /\ pc' = [pc EXCEPT ![n] = "idle"]
    /\ UNCHANGED <<lock, pk_entry, gen_ret, full_node, elapsed, gen_pc, gen_count,
                   pk_cache, node_lookup, max_tasks, snap, addrs, prune_due,
                   calls, reply>>

\* a publication that stores the result and leaves pending set
DcPublishKeepsPending(n) ==
    /\ pc[n] = "publish"
    /\ obtained' = [obtained EXCEPT ![n] = FALSE]
    /\ LET i == FindTask(tasks[n], task_options[n]) IN
       IF i # 0
       THEN tasks' = [tasks EXCEPT ![n][i] =
                         [@ EXCEPT !.result = task_result[n],
                                   !.edition = @ + 1]]
       ELSE tasks' = tasks
    /\ task_options' = [task_options EXCEPT ![n] = NoOptions]
    /\ task_result' = [task_result EXCEPT ![n] = NoResult]
    /\ pc' = [pc EXCEPT ![n] = "idle"]
    /\ UNCHANGED <<lock, pk_entry, gen_ret, full_node, elapsed, gen_pc, gen_count,
                   pk_cache, pending, node_lookup, max_tasks, snap, addrs,
                   prune_due, calls, reply>>

\* a publication that puts a task that was removed back into the queue
DcPublishPushesMissing(n) ==
    /\ pc[n] = "publish"
    /\ pending' = [pending EXCEPT ![n] = NoOptions]
    /\ obtained' = [obtained EXCEPT ![n] = FALSE]
    /\ LET i == FindTask(tasks[n], task_options[n]) IN
       IF i # 0
       THEN tasks' = [tasks EXCEPT ![n][i] =
                         [@ EXCEPT !.result = task_result[n],
                                   !.edition = @ + 1]]
       ELSE tasks' = [tasks EXCEPT ![n] =
                         Append(@, [options |-> task_options[n],
                                    result |-> task_result[n],
                                    edition |-> 1])]
    /\ task_options' = [task_options EXCEPT ![n] = NoOptions]
    /\ task_result' = [task_result EXCEPT ![n] = NoResult]
    /\ pc' = [pc EXCEPT ![n] = "idle"]
    /\ UNCHANGED <<lock, pk_entry, gen_ret, full_node, elapsed, gen_pc, gen_count,
                   pk_cache, node_lookup, max_tasks, snap, addrs, prune_due,
                   calls, reply>>

\* a publication that takes a failed task out of the queue
DcPublishDropsFailed(n) ==
    /\ pc[n] = "publish"
    /\ pending' = [pending EXCEPT ![n] = NoOptions]
    /\ obtained' = [obtained EXCEPT ![n] = FALSE]
    /\ LET i == FindTask(tasks[n], task_options[n]) IN
       IF i # 0
       THEN IF task_result[n].tag = "Err"
            THEN tasks' = [tasks EXCEPT ![n] =
                              SubSeq(@, 1, i - 1) \o SubSeq(@, i + 1, Len(@))]
            ELSE tasks' = [tasks EXCEPT ![n][i] =
                              [@ EXCEPT !.result = task_result[n],
                                        !.edition = @ + 1]]
       ELSE tasks' = tasks
    /\ task_options' = [task_options EXCEPT ![n] = NoOptions]
    /\ task_result' = [task_result EXCEPT ![n] = NoResult]
    /\ pc' = [pc EXCEPT ![n] = "idle"]
    /\ UNCHANGED <<lock, pk_entry, gen_ret, full_node, elapsed, gen_pc, gen_count,
                   pk_cache, node_lookup, max_tasks, snap, addrs, prune_due,
                   calls, reply>>

\* done, update the queue: clear pending and obtained, store the result
DcPublish(n) ==
    /\ pc[n] = "publish"
    /\ pending' = [pending EXCEPT ![n] = NoOptions]
    /\ obtained' = [obtained EXCEPT ![n] = FALSE]
    /\ LET i == FindTask(tasks[n], task_options[n]) IN
       IF i # 0
       THEN tasks' = [tasks EXCEPT ![n][i] =
                         [@ EXCEPT !.result = task_result[n],
                                   !.edition = @ + 1]]
       ELSE tasks' = tasks
    /\ task_options' = [task_options EXCEPT ![n] = NoOptions]
    /\ task_result' = [task_result EXCEPT ![n] = NoResult]
    /\ pc' = [pc EXCEPT ![n] = "idle"]
    /\ UNCHANGED <<lock, pk_entry, gen_ret, full_node, elapsed, gen_pc, gen_count,
                   pk_cache, node_lookup, max_tasks, snap, addrs, prune_due,
                   calls, reply>>

\* ------------------------------------------------------------------------
\* The loops of an aggregator
\* ------------------------------------------------------------------------

\* the merge loop of main calls merge_tasks_from_peers
AggMergeStart(n) ==
    /\ full_node[n]
    /\ pc[n] = "idle"
    /\ pc' = [pc EXCEPT ![n] = "agg_merge"]
    /\ addrs' = [addrs EXCEPT ![n] = IF node_lookup[n] THEN Resolve ELSE <<>>]
    /\ UNCHANGED <<lock, pk_entry, gen_ret, full_node, elapsed, gen_pc, gen_count,
                   tasks, pk_cache, pending, obtained, node_lookup, max_tasks,
                   snap, task_options, task_result, prune_due, calls, reply>>

\* merge_tasks_from_peers in the merge loop: the info call to the next peer
\* answers
AggMergePeer(n) ==
    /\ pc[n] = "agg_merge"
    /\ addrs[n] # <<>>
    /\ LET p == Head(addrs[n]) IN
       IF NodeId(p) = NodeId(n)
       THEN /\ pc' = pc
            /\ tasks' = tasks
       ELSE /\ pc' = [pc EXCEPT ![n] = IF max_tasks # 0 THEN "agg_merge_prune"
                                       ELSE "agg_merge"]
            /\ tasks' = [tasks EXCEPT ![n] = MergeTasks(@, tasks[p])]
    /\ addrs' = [addrs EXCEPT ![n] = Tail(@)]
    /\ UNCHANGED <<lock, pk_entry, gen_ret, full_node, elapsed, gen_pc, gen_count,
                   pk_cache, pending, obtained, node_lookup, max_tasks, snap,
                   task_options, task_result, prune_due, calls, reply>>

\* prune_tasks at the end of merge_tasks
AggMergePrune(n) ==
    /\ pc[n] = "agg_merge_prune"
    /\ pc' = [pc EXCEPT ![n] = "agg_merge"]
    /\ tasks' = [tasks EXCEPT ![n] = PruneTasks(@, max_tasks)]
    /\ UNCHANGED <<lock, pk_entry, gen_ret, full_node, elapsed, gen_pc, gen_count,
                   pk_cache, pending, obtained, node_lookup, max_tasks, snap,
                   addrs, task_options, task_result, prune_due, calls, reply>>

\* merge_tasks_from_peers in the merge loop fails: main drops the error
AggMergeFail(n) ==
    /\ pc[n] = "agg_merge"
    /\ addrs[n] # <<>>
    /\ pc' = [pc EXCEPT ![n] = "idle"]
    /\ addrs' = [addrs EXCEPT ![n] = <<>>]
    /\ UNCHANGED <<lock, pk_entry, gen_ret, full_node, elapsed, gen_pc, gen_count,
                   tasks, pk_cache, pending, obtained, node_lookup, max_tasks,
                   snap, task_options, task_result, prune_due, calls, reply>>

\* merge_tasks_from_peers in the merge loop returns Ok(true)
AggMergeDone(n) ==
    /\ pc[n] = "agg_merge"
    /\ addrs[n] = <<>>
    /\ pc' = [pc EXCEPT ![n] = "idle"]
    /\ UNCHANGED <<lock, pk_entry, gen_ret, full_node, elapsed, gen_pc, gen_count,
                   tasks, pk_cache, pending, obtained, node_lookup, max_tasks,
                   snap, addrs, task_options, task_result, prune_due, calls,
                   reply>>

\* dispatch_tasks_to_peers: a task without result is forwarded to a peer
\* by the proof call, which the peer serves with get_or_enqueue
AggDispatch(n, p, options) ==
    /\ full_node[n]
    /\ NodeId(p) # NodeId(n)
    /\ \E i \in 1..Len(tasks[n]) :
          tasks[n][i].options = options /\ tasks[n][i].result = NoResult
    /\ GetOrEnqueue(p, options)

Next ==
    \/ \E n \in ClientNodes, options \in Requests : GetOrEnqueue(n, options)
    \/ \E n \in Nodes : HandlerPrune(n)
    \/ \E n \in Nodes : DcStart(n)
    \/ \E n \in Nodes : DcMergePeer(n)
    \/ \E n \in Nodes : DcMergePrune(n)
    \/ \E n \in Nodes : DcLookupFail(n)
    \/ \E n \in Nodes : DcMergeFail(n)
    \/ \E n \in Nodes : DcSkipTick(n)
    \/ \E n \in Nodes : DcCheck(n)
    \/ \E n \in Nodes : DcSetPending(n)
    \/ \E n \in Nodes : DcObtainPeer(n)
    \/ \E n \in Nodes : DcObtainFail(n)
    \/ \E n \in Nodes : DcLost(n)
    \/ \E n \in Nodes : DcWon(n)
    \/ \E n \in Nodes : DcNothing(n)
    \/ \E n \in Nodes, fault \in ClusterFaults : DcCompute(n, fault)
    \/ \E n \in Nodes : DcPublish(n)

\* a cluster of two workers that find each other by the lookup name
Spec == Init /\ [][Next]_vars

\* the steps of the duty cycle loop of main on worker n
DutyCycle(n) ==
    \/ DcStart(n)
    \/ DcMergePeer(n)
    \/ DcMergePrune(n)
    \/ DcLookupFail(n)
    \/ DcMergeFail(n)
    \/ DcSkipTick(n)
    \/ DcCheck(n)
    \/ DcSetPending(n)
    \/ DcObtainPeer(n)
    \/ DcObtainFail(n)
    \/ DcLost(n)
    \/ DcWon(n)
    \/ DcNothing(n)
    \/ \E fault \in ClusterFaults : DcCompute(n, fault)
    \/ DcPublish(n)

\* the request the clients of the live cluster send: O1 with retry set
LiveRequests == { [BaseOptions EXCEPT !.retry = TRUE] }

NextLive ==
    \/ \E n \in ClientNodes, options \in LiveRequests : GetOrEnqueue(n, options)
    \/ \E n \in Nodes : HandlerPrune(n)
    \/ \E n \in Nodes : DutyCycle(n)

\* two workers whose loops go on for ever, whose info calls are answered or
\* fail and whose computes end
SpecLive ==
    Init /\ [][NextLive]_vars /\ \A n \in Nodes : WF_vars(DutyCycle(n))

\* an aggregator, which the clients call, and a worker
InitAgg ==
    /\ tasks = [n \in Nodes |-> <<>>]
    /\ pk_cache = [n \in Nodes |-> {}]
    /\ pending = [n \in Nodes |-> NoOptions]
    /\ obtained = [n \in Nodes |-> FALSE]
    /\ node_lookup = [n \in Nodes |-> TRUE]
    /\ max_tasks \in MaxTasksChoices
    /\ pc = [n \in Nodes |-> "idle"]
    /\ snap = [n \in Nodes |-> <<>>]
    /\ addrs = [n \in Nodes |-> <<>>]
    /\ task_options = [n \in Nodes |-> NoOptions]
    /\ task_result = [n \in Nodes |-> NoResult]
    /\ prune_due = [n \in Nodes |-> FALSE]
    /\ calls = 0
    /\ reply = NoReply
    /\ full_node = [n \in Nodes |-> n \in ClientNodes]
    /\ elapsed = [n \in Nodes |-> 0]
    /\ gen_pc = [c \in GenCallers |-> NoGenPk]
    /\ gen_count = [k \in CacheKeys |-> 0]
    /\ lock = 0
    /\ pk_entry = [k \in CacheKeys |-> 0]
    /\ gen_ret = [c \in GenCallers |-> 0]

NextAgg ==
    \/ Next
    \/ \E n \in Nodes : AggMergeStart(n)
    \/ \E n \in Nodes : AggMergePeer(n)
    \/ \E n \in Nodes : AggMergePrune(n)
    \/ \E n \in Nodes : AggMergeFail(n)
    \/ \E n \in Nodes : AggMergeDone(n)
    \/ \E n, p \in Nodes, options \in Requests : AggDispatch(n, p, options)

SpecAgg == InitAgg /\ [][NextAgg]_vars

\* a single worker started without a lookup name
InitSolo ==
    /\ tasks = [n \in Nodes |-> <<>>]
    /\ pk_cache = [n \in Nodes |-> {}]
    /\ pending = [n \in Nodes |-> NoOptions]
    /\ obtained = [n \in Nodes |-> FALSE]
    /\ node_lookup = [n \in Nodes |-> FALSE]
    /\ max_tasks \in MaxTasksChoices
    /\ pc = [n \in Nodes |-> "idle"]
    /\ snap = [n \in Nodes |-> <<>>]
    /\ addrs = [n \in Nodes |-> <<>>]
    /\ task_options = [n \in Nodes |-> NoOptions]
    /\ task_result = [n \in Nodes |-> NoResult]
    /\ prune_due = [n \in Nodes |-> FALSE]
    /\ calls = 0
    /\ reply = NoReply
    /\ full_node = [n \in Nodes |-> FALSE]
    /\ elapsed = [n \in Nodes |-> 0]
    /\ gen_pc = [c \in GenCallers |-> NoGenPk]
    /\ gen_count = [k \in CacheKeys |-> 0]
    /\ lock = 0
    /\ pk_entry = [k \in CacheKeys |-> 0]
    /\ gen_ret = [c \in GenCallers |-> 0]

NextSolo ==
    \/ \E options \in SoloRequests : GetOrEnqueue(1, options)
    \/ HandlerPrune(1)
    \/ DcStart(1)
    \/ DcCheck(1)
    \/ DcSetPending(1)
    \/ DcWon(1)
    \/ DcNothing(1)
    \/ \E fault \in Faults : DcCompute(1, fault)
    \/ DcPublish(1)

SpecSolo == InitSolo /\ [][NextSolo]_vars

\* the steps of the duty cycle loop of main on the single worker
DutyCycleLoop ==
    \/ DcStart(1)
    \/ DcCheck(1)
    \/ DcSetPending(1)
    \/ DcWon(1)
    \/ DcNothing(1)
    \/ \E fault \in Faults : DcCompute(1, fault)
    \/ DcPublish(1)

\* a single worker whose loop goes on for ever and whose computes end
SpecSoloLive == InitSolo /\ [][NextSolo]_vars /\ WF_vars(DutyCycleLoop)

\* ------------------------------------------------------------------------
\* gen_pk, step by step, for callers that share the state of node 1
\* ------------------------------------------------------------------------

\* a gen_pk that generates the key without looking into the cache
GenPkCallAlwaysGenerates(c, key) ==
    /\ gen_pc[c].state = "idle"
    /\ lock = 0
    /\ gen_pc' = [gen_pc EXCEPT ![c] = [state |-> "keygen", key |-> key]]
    /\ UNCHANGED <<tasks, pending, obtained, node_lookup, max_tasks, pc, snap,
                   addrs, task_options, task_result, prune_due, calls, reply,
                   full_node, elapsed, pk_cache, gen_count, lock, pk_entry, gen_ret>>

\* a gen_pk that keeps the lock while it generates the key
GenPkCallKeepsLock(c, key) ==
    /\ gen_pc[c].state = "idle"
    /\ lock = 0
    /\ lock' = c
    /\ IF key \in pk_cache[1]
       THEN /\ gen_pc' = [gen_pc EXCEPT ![c] = [state |-> "return", key |-> key]]
            /\ gen_ret' = [gen_ret EXCEPT ![c] = pk_entry[key]]
       ELSE /\ gen_pc' = [gen_pc EXCEPT ![c] = [state |-> "keygen", key |-> key]]
            /\ gen_ret' = gen_ret
    /\ UNCHANGED <<tasks, pending, obtained, node_lookup, max_tasks, pc, snap,
                   addrs, task_options, task_result, prune_due, calls, reply,
                   full_node, elapsed, pk_cache, gen_count, pk_entry>>

\* gen_pk takes the lock and looks the key up; when it is absent the lock is
\* dropped for the generation, else it is held until the entry is returned
GenPkCall(c, key) ==
    /\ gen_pc[c].state = "idle"
    /\ lock = 0
    /\ IF key \in pk_cache[1]
       THEN /\ gen_pc' = [gen_pc EXCEPT ![c] = [state |-> "return", key |-> key]]
            /\ lock' = c
            /\ gen_ret' = [gen_ret EXCEPT ![c] = pk_entry[key]]
       ELSE /\ gen_pc' = [gen_pc EXCEPT ![c] = [state |-> "keygen", key |-> key]]
            /\ lock' = 0
            /\ gen_ret' = gen_ret
    /\ UNCHANGED <<tasks, pending, obtained, node_lookup, max_tasks, pc, snap,
                   addrs, task_options, task_result, prune_due, calls, reply,
                   full_node, elapsed, pk_cache, gen_count, pk_entry>>

\* keygen_vk and keygen_pk run outside the lock and make a new key
GenPkKeygen(c) ==
    /\ gen_pc[c].state = "keygen"
    /\ gen_count' = [gen_count EXCEPT ![gen_pc[c].key] = @ + 1]
    /\ gen_ret' = [gen_ret EXCEPT ![c] = gen_count[gen_pc[c].key] + 1]
    /\ gen_pc' = [gen_pc EXCEPT ![c].state = "insert"]
    /\ UNCHANGED <<tasks, pending, obtained, node_lookup, max_tasks, pc, snap,
                   addrs, task_options, task_result, prune_due, calls, reply,
                   full_node, elapsed, pk_cache, lock, pk_entry>>

\* an insert that keeps the entry another call has inserted meanwhile
GenPkInsertKeepsFirst(c) ==
    /\ gen_pc[c].state = "insert"
    /\ lock = 0
    /\ lock' = c
    /\ pk_cache' = [pk_cache EXCEPT ![1] = @ \cup {gen_pc[c].key}]
    /\ IF gen_pc[c].key \in pk_cache[1]
       THEN /\ pk_entry' = pk_entry
            /\ gen_ret' = [gen_ret EXCEPT ![c] = pk_entry[gen_pc[c].key]]
       ELSE /\ pk_entry' = [pk_entry EXCEPT ![gen_pc[c].key] = gen_ret[c]]
            /\ gen_ret' = gen_ret
    /\ gen_pc' = [gen_pc EXCEPT ![c].state = "return"]
    /\ UNCHANGED <<tasks, pending, obtained, node_lookup, max_tasks, pc, snap,
                   addrs, task_options, task_result, prune_due, calls, reply,
                   full_node, elapsed, gen_count>>

\* the lock is taken again and the key inserted: HashMap::insert puts the
\* new key in the place of an entry that is there
GenPkInsert(c) ==
    /\ gen_pc[c].state = "insert"
    /\ lock = 0
    /\ lock' = c
    /\ pk_cache' = [pk_cache EXCEPT ![1] = @ \cup {gen_pc[c].key}]
    /\ pk_entry' = [pk_entry EXCEPT ![gen_pc[c].key] = gen_ret[c]]
    /\ gen_pc' = [gen_pc EXCEPT ![c].state = "return"]
    /\ UNCHANGED <<tasks, pending, obtained, node_lookup, max_tasks, pc, snap,
                   addrs, task_options, task_result, prune_due, calls, reply,
                   full_node, elapsed, gen_count, gen_ret>>

\* gen_pk returns a clone of the entry of the cache and the lock is dropped
GenPkReturn(c) ==
    /\ gen_pc[c].state = "return"
    /\ lock = c
    /\ gen_pc[c].key \in pk_cache[1]
    /\ lock' = 0
    /\ gen_ret' = [gen_ret EXCEPT ![c] = pk_entry[gen_pc[c].key]]
    /\ gen_pc' = [gen_pc EXCEPT ![c] = NoGenPk]
    /\ UNCHANGED <<tasks, pending, obtained, node_lookup, max_tasks, pc, snap,
                   addrs, task_options, task_result, prune_due, calls, reply,
                   full_node, elapsed, pk_cache, gen_count, pk_entry>>

NextKeys ==
    \/ \E c \in GenCallers, key \in CacheKeys : GenPkCall(c, key)
    \/ \E c \in GenCallers : GenPkKeygen(c)
    \/ \E c \in GenCallers : GenPkInsert(c)
    \/ \E c \in GenCallers : GenPkReturn(c)

\* two tasks of one process inside compute_proof on the same SharedState
SpecKeys == InitSolo /\ [][NextKeys]_vars

\* ------------------------------------------------------------------------
\* The mutex of the state: a worker whose compute calls gen_pk step by step
\* while the handlers and the duty cycle take the lock for their sections
\* ------------------------------------------------------------------------

\* the keys compute_proof asks gen_pk for, for the task under computation
ComputeKeys == Compute(task_options[1], "none").keys

\* get_or_enqueue: lock, find or push, guard dropped at the return
LockGetOrEnqueue(options) ==
    /\ lock = 0
    /\ GetOrEnqueue(1, options)

\* prune_tasks takes the lock for the whole pruning
LockHandlerPrune ==
    /\ lock = 0
    /\ HandlerPrune(1)

\* duty_cycle: lock, look at pending and obtained, snapshot, drop(rw)
LockDcCheck ==
    /\ lock = 0
    /\ DcCheck(1)

\* duty_cycle: self.rw.lock().await.pending = Some(task)
LockDcSetPending ==
    /\ lock = 0
    /\ DcSetPending(1)

\* duty_cycle: self.rw.lock().await.obtained = true, then the clone of pending
LockDcWon ==
    /\ lock = 0
    /\ DcWon(1)

\* duty_cycle: self.rw.lock().await.pending.clone() is None
LockDcNothing ==
    /\ lock = 0
    /\ DcNothing(1)

\* the spawned compute_proof enters gen_pk for a key of its circuit
LockGenPkCall(key) ==
    /\ pc[1] = "compute"
    /\ key \in ComputeKeys
    /\ GenPkCall(1, key)

\* the spawned compute ends, outside gen_pk; a proof needs its keys
LockDcCompute(fault) ==
    /\ gen_pc[1] = NoGenPk
    /\ fault = "none" => ComputeKeys \subseteq pk_cache[1]
    /\ DcCompute(1, fault)

\* duty_cycle: lock, clear pending and obtained, store the result
LockDcPublish ==
    /\ lock = 0
    /\ DcPublish(1)

NextLock ==
    \/ \E options \in SoloRequests : LockGetOrEnqueue(options)
    \/ LockHandlerPrune
    \/ DcStart(1)
    \/ LockDcCheck
    \/ LockDcSetPending
    \/ LockDcWon
    \/ LockDcNothing
    \/ \E key \in CacheKeys : LockGenPkCall(key)
    \/ GenPkKeygen(1)
    \/ GenPkInsert(1)
    \/ GenPkReturn(1)
    \/ \E fault \in Faults : LockDcCompute(fault)
    \/ LockDcPublish

\* a single worker, its clients and the gen_pk calls of its computes
SpecLock == InitSolo /\ [][NextLock]_vars

\* requests of mock and real proofs, with and without aggregation, for
\* blocks of both arms of the parameter table
ProofRequests ==
    { [BaseOptions EXCEPT !.mock = m, !.aggregate = a, !.block = b] :
        m \in BOOLEAN, a \in BOOLEAN, b \in {1, 2} }

NextProof ==
    \/ \E options \in ProofRequests : GetOrEnqueue(1, options)
    \/ HandlerPrune(1)
    \/ DcStart(1)
    \/ DcCheck(1)
    \/ DcSetPending(1)
    \/ DcWon(1)
    \/ DcNothing(1)
    \/ DcCompute(1, "none")
    \/ DcPublish(1)

\* a single worker that computes mock and real proofs
SpecProof == InitSolo /\ [][NextProof]_vars

\* requests for the blocks of the chain
GasRequests == { [BaseOptions EXCEPT !.block = b] : b \in 1..(3 + Len(BoundaryGas)) }

NextGas ==
    \/ \E options \in GasRequests : GetOrEnqueue(1, options)
    \/ HandlerPrune(1)
    \/ DcStart(1)
    \/ DcCheck(1)
    \/ DcSetPending(1)
    \/ DcWon(1)
    \/ DcNothing(1)
    \/ DcCompute(1, "none")
    \/ DcPublish(1)

\* a single worker that proves blocks of any gas used
SpecGas == InitSolo /\ [][NextGas]_vars

\* the spawned compute goes on running for another timeout period:
\* duty_cycle awaits its JoinHandle without a deadline
Tick(n) ==
    /\ pc[n] = "compute"
    /\ elapsed[n] < MaxPeriods
    /\ elapsed' = [elapsed EXCEPT ![n] = @ + 1]
    /\ UNCHANGED <<tasks, pk_cache, pending, obtained, node_lookup, max_tasks,
                   pc, snap, addrs, task_options, task_result, prune_due,
                   calls, reply, full_node, gen_pc, gen_count, lock, pk_entry,
                   gen_ret>>

NextTimed ==
    \/ NextSolo
    \/ Tick(1)

\* a single worker and the wall clock of its compute
SpecTimed == InitSolo /\ [][NextTimed]_vars

\* the request handler alone, on a queue that holds one task: O1 as any
\* client may have enqueued it, not yet computed, proved or failed
StoredTasks ==
    { [options |-> o, result |-> NoResult, edition |-> 0] :
        o \in {BaseOptions} \cup FlagVariants }
    \cup
    { [options |-> o, result |-> Compute(o, fault).result, edition |-> 1] :
        o \in {BaseOptions} \cup FlagVariants, fault \in Faults }

InitEq ==
    /\ \E t \in StoredTasks : tasks = [n \in Nodes |-> IF n = 1 THEN <<t>> ELSE <<>>]
    /\ pk_cache = [n \in Nodes |-> {}]
    /\ pending = [n \in Nodes |-> NoOptions]
    /\ obtained = [n \in Nodes |-> FALSE]
    /\ node_lookup = [n \in Nodes |-> FALSE]
    /\ max_tasks = 0
    /\ pc = [n \in Nodes |-> "idle"]
    /\ snap = [n \in Nodes |-> <<>>]
    /\ addrs = [n \in Nodes |-> <<>>]
    /\ task_options = [n \in Nodes |-> NoOptions]
    /\ task_result = [n \in Nodes |-> NoResult]
    /\ prune_due = [n \in Nodes |-> FALSE]
    /\ calls = 0
    /\ reply = NoReply
    /\ full_node = [n \in Nodes |-> FALSE]
    /\ elapsed = [n \in Nodes |-> 0]
    /\ gen_pc = [c \in GenCallers |-> NoGenPk]
    /\ gen_count = [k \in CacheKeys |-> 0]
    /\ lock = 0
    /\ pk_entry = [k \in CacheKeys |-> 0]
    /\ gen_ret = [c \in GenCallers |-> 0]

NextEq == \E options \in EqRequests : GetOrEnqueue(1, options)

SpecEq == InitEq /\ [][NextEq]_vars

\* ------------------------------------------------------------------------
\* Properties of the shared state
\* ------------------------------------------------------------------------

\* C1: no two entries of a node's task list have equal options, in every
\* state reached by get_or_enqueue, merge_tasks, publication and pruning
UniqueOptions ==
    \A n \in Nodes : \A i, j \in 1..Len(tasks[n]) :
        i # j => ~OptEq(tasks[n][i].options, tasks[n][j].options)

\* both nodes hold two tasks: node 2 has them from merges only
WitnessUniqueOptions ==
    /\ Len(tasks[1]) = 2
    /\ Len(tasks[2]) = 2
    /\ \E i \in 1..2 : tasks[2][i].result.tag # "None"

\* C2: in every step a task that stays in the queue keeps or raises its
\* edition, and a step that changes its result raises its edition
MonotoneEdition ==
    [][\A n \in Nodes : \A i \in 1..Len(tasks[n]) : \A j \in 1..Len(tasks'[n]) :
          OptEq(tasks[n][i].options, tasks'[n][j].options) =>
             /\ tasks'[n][j].edition >= tasks[n][i].edition
             /\ tasks'[n][j].result # tasks[n][i].result =>
                   tasks'[n][j].edition > tasks[n][i].edition]_vars

\* node 2 holds a retried task, which it has from a merge, and node 1 has
\* published a result for it again
WitnessMonotoneEdition ==
    /\ \E i \in 1..Len(tasks[2]) :
          tasks[2][i].edition = 2 /\ tasks[2][i].result.tag = "None"
    /\ \E i \in 1..Len(tasks[1]) : tasks[1][i].edition = 3

\* C3: obtained is set only while a pending task is recorded
ObtainedImpliesPending ==
    \A n \in Nodes : obtained[n] => pending[n] # NoOptions

\* both nodes have obtained a task
WitnessObtainedImpliesPending ==
    \A n \in Nodes : obtained[n] /\ pc[n] = "publish"

EnqueueNewTask ==
    [][calls' # calls =>
          LET n == reply'.node
              x == reply'.options
              i == FindTask(tasks[n], x)
          IN  /\ i = 0 =>
                    /\ tasks' = [tasks EXCEPT ![n] =
                          Append(@, [options |-> x, result |-> NoResult,
                                     edition |-> 0])]
                    /\ reply'.result = NoResult
              /\ (i # 0 /\ tasks[n][i].edition = 0
                        /\ tasks[n][i].result = NoResult) =>
                    /\ tasks' = tasks
                    /\ reply'.result = NoResult]_vars

\* two calls with the same request and nothing else: one task at edition 0
WitnessEnqueueNewTask ==
    /\ calls = 2
    /\ max_tasks = 0
    /\ Len(tasks[1]) = 1
    /\ tasks[1][1].edition = 0
    /\ tasks[1][1].result = NoResult
    /\ OptEq(tasks[1][1].options, reply.options)
    /\ reply.result = NoResult
    /\ tasks[2] = <<>>
    /\ \A n \in Nodes : pc[n] = "idle"

\* C6: get_or_enqueue(x) with x.retry set on a task whose result is Err
\* clears the result, adds exactly 1 to the edition and returns pending;
\* no other task, pending, obtained or the key cache changes
RetryLaw ==
    [][calls' # calls =>
          LET n == reply'.node
              x == reply'.options
              i == FindTask(tasks[n], x)
          IN  (i # 0 /\ tasks[n][i].result.tag = "Err" /\ x.retry) =>
                 /\ tasks' = [tasks EXCEPT ![n][i] =
                       [options |-> tasks[n][i].options, result |-> NoResult,
                        edition |-> tasks[n][i].edition + 1]]
                 /\ reply'.result = NoResult
                 /\ UNCHANGED <<full_node, elapsed, gen_pc, gen_count,
                   pending, obtained, pk_cache>>]_vars

\* a task that failed was retried by the last call
WitnessRetryLaw ==
    /\ reply.options.retry
    /\ reply.result = NoResult
    /\ \E i \in 1..Len(tasks[1]) :
          /\ OptEq(tasks[1][i].options, reply.options)
          /\ tasks[1][i].edition = 2
          /\ tasks[1][i].result = NoResult

\* C7: get_or_enqueue(x) changes nothing of the shared state and returns
\* the stored result when the task found has result Ok (whatever x.retry),
\* has result Err and x.retry is false, or has no result
EnqueueFrame ==
    [][calls' # calls =>
          LET n == reply'.node
              x == reply'.options
              i == FindTask(tasks[n], x)
          IN  (i # 0 /\ (\/ tasks[n][i].result.tag = "Ok"
                         \/ tasks[n][i].result.tag = "Err" /\ ~x.retry
                         \/ tasks[n][i].result.tag = "None")) =>
                 /\ UNCHANGED <<full_node, elapsed, gen_pc, gen_count,
                   tasks, pending, obtained, pk_cache>>
                 /\ reply'.result = tasks[n][i].result]_vars

\* a call with retry set was answered with the proofs of the task
WitnessEnqueueFrame ==
    /\ reply.options.retry
    /\ reply.result.tag = "Ok"
    /\ \E i \in 1..Len(tasks[reply.node]) :
          /\ OptEq(tasks[reply.node][i].options, reply.options)
          /\ tasks[reply.node][i].result = reply.result
          /\ tasks[reply.node][i].edition = 1

\* the options without the flags retry, mock_feedback and verify_proof
Identity(o) ==
    [o EXCEPT !.retry = FALSE, !.mock_feedback = FALSE, !.verify_proof = FALSE]

\* C8: get_or_enqueue(x) creates a task exactly when no task of the queue
\* agrees with x in every field but retry, mock_feedback and verify_proof,
\* and it retries a failed task exactly when x.retry is set, whatever the
\* retry flag stored with the task
IdentityIgnoresFlags ==
    [][calls' # calls =>
          LET n == reply'.node
              x == reply'.options
          IN  /\ (Len(tasks'[n]) = Len(tasks[n])) <=>
                    (\E i \in 1..Len(tasks[n]) :
                        Identity(tasks[n][i].options) = Identity(x))
              /\ \A i \in 1..Len(tasks[n]) :
                    (Identity(tasks[n][i].options) = Identity(x)
                       /\ tasks[n][i].result.tag = "Err") =>
                        /\ tasks'[n][i].options = tasks[n][i].options
                        /\ x.retry =>
                              tasks'[n][i].edition = tasks[n][i].edition + 1
                        /\ ~x.retry => tasks'[n][i] = tasks[n][i]]_vars

\* a failed task stored without retry was retried by a caller, and a request
\* with another identity made a second task
WitnessIdentityIgnoresFlags ==
    /\ Len(tasks[1]) = 2
    /\ ~tasks[1][1].options.retry
    /\ tasks[1][1].edition = 2
    /\ tasks[1][1].result = NoResult
    /\ Identity(tasks[1][2].options) # Identity(tasks[1][1].options)

\* C9: after merge_tasks of a peer's tasks, a task present in both has the
\* greater of the two editions; it has the peer's result when the peer's
\* edition was strictly greater, else its own result and edition
GossipMonotone ==
    [][\A n \in Nodes :
          (pc[n] = "merge" /\ addrs[n] # <<>> /\ addrs'[n] # addrs[n]
             /\ pc'[n] # "idle" /\ Head(addrs[n]) # n) =>
             LET p == Head(addrs[n]) IN
             \A i \in 1..Len(tasks[n]) : \A j \in 1..Len(tasks[p]) :
                OptEq(tasks[n][i].options, tasks[p][j].options) =>
                   LET l == tasks[n][i]
                       q == tasks[p][j]
                       m == tasks'[n][i]
                   IN  /\ m.options = l.options
                       /\ m.edition = IF q.edition > l.edition
                                      THEN q.edition ELSE l.edition
                       /\ IF q.edition > l.edition
                          THEN m.result = q.result
                          ELSE m.result = l.result /\ m.edition = l.edition]_vars

\* node 2 has just merged the tasks of node 1 and holds the retried task
WitnessGossipMonotone ==
    /\ pc[2] \in {"merge", "merge_prune"}
    /\ addrs[2] = <<>>
    /\ \E i \in 1..Len(tasks[2]) : \E j \in 1..Len(tasks[1]) :
          /\ OptEq(tasks[2][i].options, tasks[1][j].options)
          /\ tasks[2][i].edition = 2
          /\ tasks[2][i].result = NoResult
          /\ tasks[1][j] = tasks[2][i]

\* a status call of obtain_task of node n is answered by a peer that holds
\* the pending task of n and has not obtained it
RaceStep(n) ==
    /\ pc[n] = "obtain"
    /\ addrs[n] # <<>>
    /\ addrs'[n] # addrs[n]
    /\ pc'[n] # "obtain_err"
    /\ NodeId(Head(addrs[n])) # NodeId(n)
    /\ pending[Head(addrs[n])] # NoOptions
    /\ OptEq(pending[Head(addrs[n])], pending[n])
    /\ ~obtained[Head(addrs[n])]

\* C10 as stated: against a peer that holds the same pending task and has
\* not obtained it, the node loses if peer.id > self.id and else goes on to
\* the next peer
GreaterIdWinsRace ==
    [][\A n \in Nodes : RaceStep(n) =>
          IF StrGreater(NodeId(Head(addrs[n])), NodeId(n))
          THEN pc'[n] = "lost"
          ELSE pc'[n] = "obtain" /\ addrs'[n] = Tail(addrs[n])]_vars

\* C10 amended: against a peer that holds the same pending task and has not
\* obtained it, the node goes on to the next peer if peer.id > self.id and
\* else loses
SmallerIdWinsRace ==
    [][\A n \in Nodes : RaceStep(n) =>
          IF StrGreater(NodeId(Head(addrs[n])), NodeId(n))
          THEN pc'[n] = "obtain" /\ addrs'[n] = Tail(addrs[n])
          ELSE pc'[n] = "lost"]_vars

\* node 2, of the greater id, has lost the task to node 1, which is still
\* in its own obtain_task and has not obtained it
WitnessSmallerIdWinsRace ==
    /\ pc[2] = "lost"
    /\ pc[1] = "obtain"
    /\ pending[1] # NoOptions
    /\ OptEq(pending[1], pending[2])
    /\ ~obtained[1]
    /\ StrGreater(NodeId(2), NodeId(1))

\* a status call of obtain_task of node n is answered by a peer that holds
\* the pending task of n and has obtained it
ObtainedPeerStep(n) ==
    /\ pc[n] = "obtain"
    /\ addrs[n] # <<>>
    /\ addrs'[n] # addrs[n]
    /\ pc'[n] # "obtain_err"
    /\ NodeId(Head(addrs[n])) # NodeId(n)
    /\ pending[Head(addrs[n])] # NoOptions
    /\ OptEq(pending[Head(addrs[n])], pending[n])
    /\ obtained[Head(addrs[n])]

\* C11: against a peer that holds the same pending task and has obtained
\* it the node loses whatever the two ids are; it does not set obtained, the
\* rest of its snapshot does not hold the task again, and the claim loop
\* clears pending before it goes on
NoDuplicateAcceptance ==
    [][\A n \in Nodes :
          /\ ObtainedPeerStep(n) =>
                /\ pc'[n] = "lost"
                /\ ~obtained'[n]
                /\ \A k \in 1..Len(snap'[n]) : ~OptEq(snap'[n][k], pending[n])
          /\ (pc[n] = "lost" /\ pc'[n] # "lost") =>
                /\ pc'[n] = "claim"
                /\ pending'[n] = NoOptions
                /\ ~obtained'[n]]_vars

\* node 1, of the smaller id, has lost the task to node 2, which obtained it
WitnessNoDuplicateAcceptance ==
    /\ pc[1] = "lost"
    /\ ~obtained[1]
    /\ obtained[2]
    /\ pending[2] # NoOptions
    /\ OptEq(pending[1], pending[2])
    /\ StrGreater(NodeId(2), NodeId(1))

\* C12: on a node without peer lookup merge_tasks_from_peers visits no peer
\* and leaves the task list as it is, and obtain_task visits no peer and is
\* followed by obtained set for the pending task
NoLookupNoPeers ==
    [][\A n \in Nodes : ~node_lookup[n] =>
          /\ addrs'[n] = <<>>
          /\ (pc[n] = "idle" /\ pc'[n] # "idle") =>
                pc'[n] = "merge" /\ tasks'[n] = tasks[n]
          /\ (pc[n] = "merge" /\ pc'[n] # "merge") =>
                pc'[n] \in {"claim", "idle"} /\ tasks'[n] = tasks[n]
          /\ (pc[n] = "obtain" /\ pc'[n] # "obtain") =>
                /\ pc'[n] = "compute"
                /\ obtained'[n]
                /\ pending'[n] = pending[n]]_vars

\* a node without lookup has obtained the second task of its queue
WitnessNoLookupNoPeers ==
    /\ ~node_lookup[1]
    /\ pc[1] = "compute"
    /\ obtained[1]
    /\ Len(tasks[1]) = 2
    /\ OptEq(tasks[1][2].options, pending[1])
    /\ tasks[1][1].result.tag # "None"

\* C13: a node's pending and obtained follow the position of its one duty
\* cycle: nothing pending before a claim, pending without obtained during
\* obtain_task, both during compute and publication; a claim starts only on
\* a node that is not busy, obtained is set only at the end of obtain_task
\* and cleared only by the publication that follows the compute
PerNodeSerialization ==
    /\ [](\A n \in Nodes :
            /\ pc[n] \in {"idle", "merge", "merge_prune", "claim"} =>
                  pending[n] = NoOptions /\ ~obtained[n]
            /\ pc[n] \in {"obtain", "lost", "obtain_err"} =>
                  pending[n] # NoOptions /\ ~obtained[n]
            /\ pc[n] \in {"compute", "publish"} =>
                  /\ pending[n] # NoOptions
                  /\ obtained[n]
                  /\ task_options[n] = pending[n])
    /\ [][\A n \in Nodes :
            /\ (pending'[n] # pending[n] /\ pending'[n] # NoOptions) =>
                  pc[n] = "claim" /\ pending[n] = NoOptions /\ ~obtained[n]
            /\ (obtained'[n] /\ ~obtained[n]) =>
                  pc[n] = "obtain" /\ pc'[n] = "compute"
            /\ (pc'[n] = "publish" /\ pc[n] # "publish") => pc[n] = "compute"
            /\ (obtained[n] /\ ~obtained'[n]) =>
                  /\ pc[n] = "publish"
                  /\ pc'[n] = "idle"
                  /\ pending'[n] = NoOptions]_vars

\* node 1 has computed the second of its two tasks after the claim of the
\* first did not succeed in the same duty cycle
WitnessPerNodeSerialization ==
    /\ pc[1] = "publish"
    /\ obtained[1]
    /\ Len(tasks[1]) = 2
    /\ \A i \in 1..2 : tasks[1][i].result = NoResult
    /\ OptEq(tasks[1][2].options, pending[1])

\* C14: the compute of the obtained task always ends with a result for the
\* publication, an Err with a message when it fails or panics; the
\* publication stores it in the task with the edition raised by 1, clears
\* pending and obtained and returns to the loop of main
ErrorsBecomeResults ==
    [][\A n \in Nodes :
          /\ (pc[n] = "compute" /\ pc'[n] # "compute") =>
                /\ pc'[n] = "publish"
                /\ task_result'[n].tag \in {"Ok", "Err"}
                /\ task_result'[n].tag = "Err" => task_result'[n].msg # ""
                /\ task_options[n].circuit # "super" =>
                      task_result'[n].tag = "Err"
                /\ pending'[n] = pending[n] /\ obtained'[n]
          /\ (pc[n] = "publish" /\ pc'[n] # "publish") =>
                /\ pc'[n] = "idle"
                /\ pending'[n] = NoOptions
                /\ ~obtained'[n]
                /\ LET i == FindTask(tasks[n], task_options[n]) IN
                   /\ max_tasks = 0 => i # 0
                   /\ i # 0 =>
                         tasks' = [tasks EXCEPT ![n][i] =
                            [options |-> tasks[n][i].options,
                             result |-> task_result[n],
                             edition |-> tasks[n][i].edition + 1]]]_vars

\* the prover panicked on the first task; its Err is in the queue and a
\* later duty cycle has computed the second task
WitnessErrorsBecomeResults ==
    /\ Len(tasks[1]) = 2
    /\ tasks[1][1].result = ErrResult("prover panic")
    /\ tasks[1][1].edition = 1
    /\ pc[1] = "publish"
    /\ OptEq(pending[1], tasks[1][2].options)
    /\ task_result[1].tag = "Err"

\* C15 as stated: a compute that has run for the timeout does not go on
\* running, and what it ends with is Err("timeout")
ComputeTimesOut ==
    [][\A n \in Nodes : (pc[n] = "compute" /\ elapsed[n] >= 1) =>
          /\ pc'[n] = "compute" => elapsed'[n] = elapsed[n]
          /\ pc'[n] = "publish" => task_result'[n] = ErrResult("timeout")]_vars

\* C16: the compute of a task whose block has a gas used beyond the table
\* ends with Err("No circuit parameters found for block with gas used=<N>")
\* unless the witness fetch failed before, it leaves the key cache as it
\* is, and the publication stores that Err in the task
NoFitPublished ==
    [][\A n \in Nodes :
          LET gas == BlockGasUsed(task_options[n].block)
              nofit == ErrResult("No circuit parameters found for block with gas used="
                                 \o ToString(gas))
          IN  /\ (pc[n] = "compute" /\ pc'[n] = "publish" /\ gas > 300000) =>
                    /\ task_result'[n] \in {nofit, ErrResult("witness fetch failed")}
                    /\ pk_cache' = pk_cache
              /\ (pc[n] = "publish" /\ pc'[n] = "idle" /\ task_result[n] = nofit) =>
                    \A i \in 1..Len(tasks[n]) :
                        OptEq(tasks[n][i].options, task_options[n]) =>
                           /\ tasks'[n][i].result = nofit
                           /\ tasks'[n][i].edition = tasks[n][i].edition + 1]_vars

\* after a real proof, whose key is cached, the task of a block of gas used
\* 1000000000 got the no-fit error
WitnessNoFitPublished ==
    /\ Len(tasks[1]) = 2
    /\ tasks[1][1].result.tag = "Ok"
    /\ Cardinality(pk_cache[1]) = 1
    /\ tasks[1][2].result =
          ErrResult("No circuit parameters found for block with gas used=1000000000")
    /\ tasks[1][2].edition = 1
    /\ pc[1] = "idle"

\* C17: the gas used of a computed task falls in at most one arm of the
\* table and in exactly one when it is not beyond the last arm; the proofs
\* carry the config of that arm, and no arm gives the no-fit error; the
\* first arm starts at 0 and each arm starts right after the one before
GasLookupTotal ==
    \A n \in Nodes : pc[n] = "publish" =>
        LET gas == BlockGasUsed(task_options[n].block)
            arms == { i \in 1..Len(CircuitTable) :
                        CircuitTable[i].lo <= gas /\ gas <= CircuitTable[i].hi }
        IN  /\ Cardinality(arms) <= 1
            /\ gas <= CircuitTable[Len(CircuitTable)].hi => Cardinality(arms) = 1
            /\ arms = {} =>
                  task_result[n] =
                     ErrResult("No circuit parameters found for block with gas used="
                               \o ToString(gas))
            /\ \A i \in arms :
                  /\ task_result[n].tag = "Ok"
                  /\ task_result[n].proofs.gas_limit =
                        CircuitTable[i].config.block_gas_limit
                  /\ task_result[n].proofs.k = CircuitTable[i].config.min_k
                  /\ task_result[n].proofs.gas = gas
            /\ CircuitTable[1].lo = 0
            /\ \A i \in 1..(Len(CircuitTable) - 1) :
                  CircuitTable[i].hi + 1 = CircuitTable[i + 1].lo

\* the block of gas used 63001, the first value of the second arm, was
\* proved with the config of the second arm
WitnessGasLookupTotal ==
    /\ pc[1] = "publish"
    /\ BlockGasUsed(task_options[1].block) = 63001
    /\ task_result[1].tag = "Ok"
    /\ task_result[1].proofs.gas_limit = 300000
    /\ task_result[1].proofs.k = 23

\* the tasks of a queue, as a set
TaskSet(ts) == { ts[i] : i \in 1..Len(ts) }

\* C18: an aggregator is never inside duty_cycle, its pending stays None
\* and its obtained false, and a task of its queue gets a result only by a
\* merge that copies the task from the peer; a worker is never in the merge
\* loop of the aggregator
AggregatorNeverComputes ==
    /\ [](\A n \in Nodes :
            /\ full_node[n] =>
                  /\ pc[n] \in {"idle", "agg_merge", "agg_merge_prune"}
                  /\ pending[n] = NoOptions
                  /\ ~obtained[n]
                  /\ task_options[n] = NoOptions
            /\ ~full_node[n] => pc[n] \notin {"agg_merge", "agg_merge_prune"})
    /\ [][\A n \in Nodes : full_node[n] =>
            \A t \in TaskSet(tasks'[n]) \ TaskSet(tasks[n]) :
                t.result # NoResult =>
                   /\ pc[n] = "agg_merge"
                   /\ addrs[n] # <<>>
                   /\ t \in TaskSet(tasks[Head(addrs[n])])]_vars

\* the aggregator holds the proofs of a task that the worker computed
WitnessAggregatorNeverComputes ==
    /\ full_node[1]
    /\ ~full_node[2]
    /\ pc[1] = "idle"
    /\ \E i \in 1..Len(tasks[1]) : \E j \in 1..Len(tasks[2]) :
          /\ tasks[1][i].result.tag = "Ok"
          /\ tasks[1][i] = tasks[2][j]

PublicationAtomic ==
    [][\A n \in Nodes :
          \A i \in 1..Len(tasks[n]) : \A j \in 1..Len(tasks'[n]) :
             OptEq(tasks[n][i].options, tasks'[n][j].options) =>
                LET old == tasks[n][i]
                    new == tasks'[n][j]
                IN  /\ new.result # old.result => new.edition # old.edition
                    /\ new.edition # old.edition =>
                          \/ /\ calls' # calls
                             /\ old.result.tag = "Err"
                             /\ new.result = NoResult
                             /\ new.edition = old.edition + 1
                          \/ /\ pc[n] = "publish"
                             /\ new.result = task_result[n]
                             /\ new.edition = old.edition + 1
                          \/ /\ pc[n] = "merge"
                             /\ addrs[n] # <<>>
                             /\ \E t \in TaskSet(tasks[Head(addrs[n])]) :
                                   /\ OptEq(t.options, new.options)
                                   /\ t.edition = new.edition
                                   /\ t.result = new.result]_vars

\* node 2 has just read the info of node 1 and holds the failed task as
\* node 1 published it
WitnessPublicationAtomic ==
    /\ pc[2] \in {"merge", "merge_prune"}
    /\ addrs[2] = <<>>
    /\ pc[1] = "idle"
    /\ \E i \in 1..Len(tasks[2]) : \E j \in 1..Len(tasks[1]) :
          /\ tasks[2][i] = tasks[1][j]
          /\ tasks[2][i].result.tag = "Err"
          /\ tasks[2][i].edition = 1

\* C21 as stated: the result of a task that stays in the queue of a node
\* goes from present to absent only in a get_or_enqueue call on that node
\* with retry set that finds the task with an Err; a merge or a publication
\* never makes a present result absent
ResultRevertsOnlyByRetry ==
    [][\A n \in Nodes :
          \A i \in 1..Len(tasks[n]) : \A j \in 1..Len(tasks'[n]) :
             (/\ OptEq(tasks[n][i].options, tasks'[n][j].options)
              /\ tasks[n][i].result.tag # "None"
              /\ tasks'[n][j].result.tag = "None") =>
                /\ calls' # calls
                /\ reply'.node = n
                /\ reply'.options.retry
                /\ OptEq(reply'.options, tasks[n][i].options)
                /\ tasks[n][i].result.tag = "Err"]_vars

\* node n has run merge_tasks on the info of node p as it is now: merging it
\* again changes nothing
Gossiped(n, p) == MergeTasks(tasks[n], tasks[p]) = tasks[n]

\* C22 as stated: once two nodes have run merge_tasks on each other's info,
\* a task that both hold has the same result and the same edition on both,
\* also when both computed it and published different results
GossipReconciles ==
    \A n, p \in Nodes : (Gossiped(n, p) /\ Gossiped(p, n)) =>
        \A i \in 1..Len(tasks[n]) : \A j \in 1..Len(tasks[p]) :
            OptEq(tasks[n][i].options, tasks[p][j].options) =>
               /\ tasks[n][i].result = tasks[p][j].result
               /\ tasks[n][i].edition = tasks[p][j].edition

PruneStep(n) ==
    \/ prune_due[n] /\ ~prune_due'[n]
    \/ pc[n] = "merge_prune" /\ pc'[n] # "merge_prune"

\* C24: prune_tasks is due after get_or_enqueue pushed a task and after
\* merge_tasks; on a list of at least max_tasks entries, max_tasks not 0, it
\* leaves the list sorted by block without max_tasks/2 entries of the lowest
\* blocks, whatever their result, and the entries kept are unchanged and
\* pairwise different; on a shorter list it changes nothing; no other step
\* drops a task, and none does when max_tasks is 0
PruningLaw ==
    [][\A n \in Nodes :
          /\ PruneStep(n) =>
                IF max_tasks # 0 /\ Len(tasks[n]) >= max_tasks
                THEN /\ Len(tasks'[n]) = Len(tasks[n]) - (max_tasks \div 2)
                     /\ \A i, j \in 1..Len(tasks'[n]) :
                           i < j =>
                              /\ tasks'[n][i].options.block <= tasks'[n][j].options.block
                              /\ ~OptEq(tasks'[n][i].options, tasks'[n][j].options)
                     /\ TaskSet(tasks'[n]) \subseteq TaskSet(tasks[n])
                     /\ \A d \in TaskSet(tasks[n]) \ TaskSet(tasks'[n]) :
                           \A k \in TaskSet(tasks'[n]) :
                              d.options.block <= k.options.block
                ELSE tasks'[n] = tasks[n]
          /\ (~PruneStep(n) \/ max_tasks = 0) =>
                \A i \in 1..Len(tasks[n]) : \E j \in 1..Len(tasks'[n]) :
                    tasks'[n][j].options = tasks[n][i].options
          /\ (calls' # calls /\ reply'.node = n
                /\ FindTask(tasks[n], reply'.options) = 0) =>
                prune_due'[n] = (max_tasks # 0)
          /\ (pc[n] = "merge" /\ addrs[n] # <<>> /\ addrs'[n] = Tail(addrs[n])
                /\ pc'[n] # "idle" /\ NodeId(Head(addrs[n])) # NodeId(n)) =>
                (max_tasks # 0 => pc'[n] = "merge_prune")]_vars

\* the handler pushed the task of block 1 behind the task of block 2 and
\* prune_tasks, on the full list, dropped the task of block 1
WitnessPruningLaw ==
    /\ max_tasks = 2
    /\ calls = 2
    /\ reply.node = 1
    /\ reply.options.block = 1
    /\ ~prune_due[1]
    /\ Len(tasks[1]) = 1
    /\ tasks[1][1].options.block = 2

\* C25: the publication is one step that clears pending and obtained of the
\* node and, when a task with the options of the computed task is in the
\* queue, stores the outcome of the compute in the first such task and adds
\* 1 to its edition; when there is none the task lists stay as they are
PublicationStep ==
    [][\A n \in Nodes : (pc[n] = "publish" /\ pc'[n] # "publish") =>
          /\ pending' = [pending EXCEPT ![n] = NoOptions]
          /\ obtained' = [obtained EXCEPT ![n] = FALSE]
          /\ IF \E i \in 1..Len(tasks[n]) :
                   OptEq(tasks[n][i].options, task_options[n])
             THEN \E i \in 1..Len(tasks[n]) :
                     /\ OptEq(tasks[n][i].options, task_options[n])
                     /\ \A k \in 1..(i - 1) :
                           ~OptEq(tasks[n][k].options, task_options[n])
                     /\ tasks' = [tasks EXCEPT ![n][i] =
                           [options |-> tasks[n][i].options,
                            result |-> task_result[n],
                            edition |-> tasks[n][i].edition + 1]]
             ELSE tasks' = tasks]_vars

\* a real proof was computed, its key is cached, and the publication found
\* the task removed: the queue holds one task, without result
WitnessPublicationStep ==
    /\ pc[1] = "idle"
    /\ pk_cache[1] # {}
    /\ pending[1] = NoOptions
    /\ ~obtained[1]
    /\ Len(tasks[1]) = 1
    /\ tasks[1][1].result = NoResult
    /\ tasks[1][1].edition = 0
    /\ ~prune_due[1]

\* the tasks of a queue that have no result, in queue order
WithoutResult(ts) == SelectSeq(ts, LAMBDA t : t.result.tag = "None")

\* C26: the claim loop works on a snapshot of the options of the tasks
\* without result, in queue order; it sets pending to the next of them
\* before obtain_task runs; after a loss or an error of obtain_task it
\* clears pending and goes on with the rest of the snapshot; after a win it
\* sets obtained, takes pending as the task to compute and tries no further
\* task before the duty cycle ends
ClaimLoop ==
    [][\A n \in Nodes :
          /\ (pc[n] = "merge" /\ pc'[n] = "claim") =>
                /\ Len(snap'[n]) = Len(WithoutResult(tasks[n]))
                /\ \A k \in 1..Len(snap'[n]) :
                      snap'[n][k] = WithoutResult(tasks[n])[k].options
          /\ (pc[n] = "claim" /\ pc'[n] # "claim") =>
                IF snap[n] = <<>>
                THEN pc'[n] = "idle" /\ pending'[n] = NoOptions /\ ~obtained'[n]
                ELSE /\ pc'[n] = "obtain"
                     /\ pending'[n] = Head(snap[n])
                     /\ snap'[n] = Tail(snap[n])
                     /\ ~obtained'[n]
          /\ (pc[n] = "obtain" /\ pc'[n] # "obtain") =>
                /\ snap'[n] = snap[n]
                /\ pending'[n] = pending[n]
                /\ IF pc'[n] = "compute"
                   THEN obtained'[n] /\ task_options'[n] = pending[n]
                   ELSE pc'[n] \in {"lost", "obtain_err"} /\ ~obtained'[n]
          /\ (pc[n] \in {"lost", "obtain_err"} /\ pc'[n] # pc[n]) =>
                /\ pc'[n] = "claim"
                /\ pending'[n] = NoOptions
                /\ snap'[n] = snap[n]
                /\ ~obtained'[n]
          /\ (pc[n] = "compute" /\ pc'[n] # "compute") => pc'[n] = "publish"
          /\ (pc[n] = "publish" /\ pc'[n] # "publish") => pc'[n] = "idle"
          /\ pc[n] \in {"compute", "publish"} =>
                /\ pending'[n] # pending[n] => pending'[n] = NoOptions
                /\ snap'[n] = snap[n]]_vars

\* node 2 lost the first task of its snapshot to node 1, which computes it,
\* and won the second, which it computes
WitnessClaimLoop ==
    /\ pc[1] = "compute"
    /\ pc[2] = "compute"
    /\ Len(tasks[2]) = 2
    /\ tasks[2][1].result = NoResult
    /\ OptEq(pending[1], tasks[2][1].options)
    /\ OptEq(pending[2], tasks[2][2].options)
    /\ snap[2] = <<>>

\* the other node of the cluster
Other(n) == CHOOSE p \in Nodes : p # n

\* both nodes are in obtain_task with the same pending task and neither has
\* obtained it
Racing ==
    /\ \A n \in Nodes : pc[n] = "obtain" /\ ~obtained[n]
    /\ OptEq(pending[1], pending[2])

\* what obtain_task of node n returns on the status of the other node as
\* it is in this state
ReturnsTrue(n) ==
    ObtainContinue(NodeId(n), pending[n], NodeId(Other(n)), pending[Other(n)],
                   obtained[Other(n)])

\* C27: when both nodes have the same task pending and neither has obtained
\* it, obtain_task run against the status of the other in that state returns
\* true on exactly one of the two nodes, and the node it returns false on
\* leaves the claim without obtained set
RaceHasOneWinner ==
    /\ [](Racing => Cardinality({n \in Nodes : ReturnsTrue(n)}) = 1)
    /\ [][\A n \in Nodes : (Racing /\ RaceStep(n)) =>
            IF ReturnsTrue(n)
            THEN pc'[n] = "obtain" /\ addrs'[n] = Tail(addrs[n])
            ELSE pc'[n] = "lost" /\ ~obtained'[n]
                    /\ pc'[Other(n)] = pc[Other(n)]]_vars

\* node 2 has lost the task against the status of node 1, which holds the
\* same task, has not obtained it and has no peer left to ask
WitnessRaceHasOneWinner ==
    /\ pc[2] = "lost"
    /\ pc[1] = "obtain"
    /\ addrs[1] = <<>>
    /\ OptEq(pending[1], pending[2])
    /\ ~obtained[1]
    /\ ~obtained[2]

\* C28: when merge_tasks_from_peers fails, by the lookup or by an info call,
\* duty_cycle returns without a claim or a compute: the failure and the
\* return leave every task list, pending, obtained, the snapshot, the task
\* under computation and the key cache as they are, and the node is not
\* busy when it returns
MergeFailureSkipsTick ==
    /\ [](\A n \in Nodes : pc[n] = "merge_err" =>
             pending[n] = NoOptions /\ ~obtained[n])
    /\ [][\A n \in Nodes :
            /\ (pc[n] \in {"idle", "merge"} /\ pc'[n] = "merge_err") =>
                  UNCHANGED <<tasks, pending, obtained, snap, task_options,
                              task_result, pk_cache>>
            /\ (pc[n] = "merge_err" /\ pc'[n] # "merge_err") =>
                  /\ pc'[n] = "idle"
                  /\ UNCHANGED <<tasks, pending, obtained, snap, task_options,
                                 task_result, pk_cache>>
            /\ pc'[n] = "claim" => pc[n] # "merge_err"]_vars

\* node 2 has merged the task of node 1 and the info call to the next peer
\* failed: the task has no result and node 2 does not claim it in this tick
WitnessMergeFailureSkipsTick ==
    /\ pc[2] = "merge_err"
    /\ addrs[2] = <<2>>
    /\ tasks[2] # <<>>
    /\ tasks[2] = tasks[1]
    /\ \A i \in 1..Len(tasks[2]) : tasks[2][i].result = NoResult
    /\ pending[2] = NoOptions

\* C29 as stated: when the info call to a resolved peer fails, the same
\* call of merge_tasks_from_peers goes on with the peers behind it
FailingPeerSkipped ==
    [][\A n \in Nodes :
          (pc[n] = "merge_err" /\ addrs[n] # <<>> /\ pc'[n] # "merge_err") =>
             pc'[n] = "merge" /\ addrs'[n] = Tail(addrs[n])]_vars

\* C29 amended: when the info call to a resolved peer fails, the call of
\* merge_tasks_from_peers ends with that peer and the peers behind it not
\* visited and the node's task list as the merges before left it; the peers
\* are resolved and visited again by the next call
FailingPeerEndsMerge ==
    [][\A n \in Nodes :
          /\ (pc[n] = "merge" /\ pc'[n] = "merge_err") =>
                addrs[n] # <<>> /\ addrs'[n] = addrs[n]
          /\ (pc[n] = "merge_err" /\ addrs[n] # <<>> /\ pc'[n] # "merge_err") =>
                /\ pc'[n] = "idle"
                /\ addrs'[n] = <<>>
                /\ tasks'[n] = tasks[n]
          /\ (pc[n] = "idle" /\ pc'[n] = "merge") => addrs'[n] = Resolve]_vars

\* the first info call of node 1 failed; node 2, behind it, holds a result
\* that node 1 has not merged
WitnessFailingPeerEndsMerge ==
    /\ pc[1] = "merge_err"
    /\ addrs[1] = <<1, 2>>
    /\ \E i \in 1..Len(tasks[1]) : \E j \in 1..Len(tasks[2]) :
          /\ OptEq(tasks[1][i].options, tasks[2][j].options)
          /\ tasks[1][i].result = NoResult
          /\ tasks[2][j].result.tag = "Ok"
          /\ tasks[2][j].edition > tasks[1][i].edition

\* C30: a visit of merge_tasks_from_peers to the node itself changes no
\* task list; a visit to another peer appends every task that only the
\* peer holds as the peer holds it, leaves every task that only the node
\* holds as it is, keeps the options and the place of every local task, and
\* drops none; no visit changes pending, obtained or the key cache
MergeAddsOrUpdates ==
    [][\A n \in Nodes :
          (pc[n] = "merge" /\ addrs[n] # <<>> /\ addrs'[n] = Tail(addrs[n])) =>
             LET p == Head(addrs[n])
                 local == tasks[n]
                 peer == tasks[p]
                 new == { j \in 1..Len(peer) :
                            \A i \in 1..Len(local) :
                               ~OptEq(local[i].options, peer[j].options) }
             IN  /\ UNCHANGED <<pending, obtained, pk_cache>>
                 /\ \A m \in Nodes \ {n} : tasks'[m] = tasks[m]
                 /\ IF NodeId(p) = NodeId(n)
                    THEN tasks'[n] = local
                    ELSE /\ Len(tasks'[n]) = Len(local) + Cardinality(new)
                         /\ \A j \in new :
                               \E k \in (Len(local) + 1)..Len(tasks'[n]) :
                                  tasks'[n][k] = peer[j]
                         /\ \A i \in 1..Len(local) :
                               /\ tasks'[n][i].options = local[i].options
                               /\ (\A j \in 1..Len(peer) :
                                     ~OptEq(local[i].options, peer[j].options))
                                  => tasks'[n][i] = local[i]]_vars

\* node 1 has visited node 2: its own task, which node 2 does not hold, is
\* as it was, and behind it is the proved task of node 2 that node 1 had
\* dropped
WitnessMergeAddsOrUpdates ==
    /\ pc[1] \in {"merge", "merge_prune"}
    /\ addrs[1] = <<>>
    /\ Len(tasks[1]) = 2
    /\ tasks[1][1].result = NoResult
    /\ tasks[1][1].edition = 0
    /\ FindTask(tasks[2], tasks[1][1].options) = 0
    /\ tasks[1][2].result.tag = "Ok"
    /\ \E j \in 1..Len(tasks[2]) : tasks[2][j] = tasks[1][2]

\* C31: on a single node without peers the edition of a task counts the
\* changes of its result: a task has no result at an even edition and a
\* result at an odd one, every step that changes the result of a task adds
\* exactly 1 to its edition and no other step changes the edition; so a
\* failed compute gives Err at edition 1, the retry no result at edition 2
\* and the compute that succeeds Ok at edition 3
EditionCountsMutations ==
    /\ [](\A i \in 1..Len(tasks[1]) :
            (tasks[1][i].edition % 2 = 0) <=> (tasks[1][i].result = NoResult))
    /\ [][\A i \in 1..Len(tasks[1]) : \A j \in 1..Len(tasks'[1]) :
            (OptEq(tasks[1][i].options, tasks'[1][j].options)
               /\ tasks'[1][j] # tasks[1][i]) =>
                  /\ tasks'[1][j].options = tasks[1][i].options
                  /\ tasks'[1][j].edition = tasks[1][i].edition + 1
                  /\ tasks'[1][j].result # tasks[1][i].result
                  /\ tasks[1][i].edition = 1 /\ tasks'[1][j].result = NoResult =>
                        tasks[1][i].result.tag = "Err" /\ calls' # calls
                  /\ tasks[1][i].edition = 2 =>
                        tasks'[1][j].result.tag \in {"Ok", "Err"}]_vars

\* the compute of the task failed, a client retried it and the next compute
\* proved it: Ok at edition 3
WitnessEditionCountsMutations ==
    /\ ~node_lookup[1]
    /\ calls = 2
    /\ Len(tasks[1]) = 1
    /\ tasks[1][1].edition = 3
    /\ tasks[1][1].result.tag = "Ok"
    /\ pc[1] = "idle"

\* C32: the mutex of the state is not held while a key or a proof is
\* generated and is taken only when it is free: inside gen_pk it is held
\* only between the insert (or the hit) and the return, the compute of the
\* duty cycle holds it nowhere else, a get_or_enqueue can run while the
\* compute generates, the holder can always release, and some step of the
\* node is always possible
LockNotHeldWhileGenerating ==
    /\ [](\A c \in GenCallers :
            /\ gen_pc[c].state \in {"idle", "keygen", "insert"} => lock # c
            /\ gen_pc[c].state = "return" => lock = c)
    /\ [](pc[1] = "compute" /\ gen_pc[1].state # "return" => lock = 0)
    /\ [](pc[1] # "compute" => lock = 0)
    /\ [][lock' # lock => lock = 0 \/ lock' = 0]_vars
    /\ [](lock # 0 => ENABLED GenPkReturn(1))
    /\ [](pc[1] = "compute" /\ gen_pc[1].state \in {"keygen", "insert"}
            /\ calls < MaxCalls =>
                ENABLED (\E options \in SoloRequests : LockGetOrEnqueue(options)))
    /\ [](ENABLED NextLock)

\* a client was answered while the compute of the node was generating a key
\* outside the lock
WitnessLockNotHeldWhileGenerating ==
    /\ pc[1] = "compute"
    /\ gen_pc[1].state = "insert"
    /\ gen_count[gen_pc[1].key] = 1
    /\ lock = 0
    /\ calls = 2
    /\ Len(tasks[1]) = 2

\* C33 as stated: when two gen_pk calls for the same absent key race, the
\* entry inserted first is kept
RaceKeepsFirstEntry ==
    [][\A k \in CacheKeys : pk_entry[k] # 0 => pk_entry'[k] = pk_entry[k]]_vars

\* C33: a gen_pk that returns leaves an entry for its cache key and returns
\* the key of that entry; a call that finds the entry generates nothing and
\* returns it; entries are never removed; a call that generated a key puts it
\* in the place of whatever entry is there, so of two racing calls the later
\* insert is the one kept, and each returns the key it generated itself
KeyCacheKeepsLastInsert ==
    /\ [](\A k \in CacheKeys : k \in pk_cache[1] <=> pk_entry[k] # 0)
    /\ [][\A c \in GenCallers :
            /\ gen_pc[c].state = "return" /\ gen_pc'[c].state = "idle" =>
                  /\ gen_pc[c].key \in pk_cache'[1]
                  /\ gen_ret'[c] = pk_entry'[gen_pc[c].key]
                  /\ gen_ret'[c] # 0
            /\ gen_pc[c].state = "idle" /\ gen_pc'[c].state # "idle"
                  /\ gen_pc'[c].key \in pk_cache[1] =>
                  /\ gen_pc'[c].state = "return"
                  /\ gen_count' = gen_count
                  /\ pk_entry' = pk_entry
                  /\ gen_ret'[c] = pk_entry[gen_pc'[c].key]
            /\ gen_pc[c].state = "insert" /\ gen_pc'[c].state # "insert" =>
                  /\ gen_pc'[c] = [state |-> "return", key |-> gen_pc[c].key]
                  /\ pk_entry'[gen_pc[c].key] = gen_ret[c]
                  /\ gen_ret'[c] = gen_ret[c]]_vars
    /\ [][/\ pk_cache[1] \subseteq pk_cache'[1]
          /\ \A k \in CacheKeys : pk_entry[k] # 0 => pk_entry'[k] # 0]_vars

\* two calls raced on an absent key and both returned: the entry is the key
\* of the second run, one caller holds the key of the first run and the other
\* the key of the second
WitnessKeyCacheKeepsLastInsert ==
    \E k \in CacheKeys :
        /\ gen_count[k] = 2
        /\ pk_entry[k] = 2
        /\ \A c \in GenCallers : gen_pc[c] = NoGenPk
        /\ {gen_ret[c] : c \in GenCallers} = {1, 2}
        /\ \A j \in CacheKeys \ {k} : gen_count[j] = 0

\* the CircuitConfig the compute of node 1 runs compute_proof with
ConfigOfTask == MatchCircuitParams(BlockGasUsed(task_options[1].block))

\* the compute of node 1 ends on a task with these two flags
ComputeEnds(mock, aggregate) ==
    /\ pc[1] = "compute"
    /\ pc'[1] = "publish"
    /\ task_options[1].mock = mock
    /\ task_options[1].aggregate = aggregate

\* C34: on a task with mock set, compute_proof returns Ok with the circuit
\* proof's k at the min_k of the config, no circuit proof bytes and an
\* aggregation proof left at its defaults; no parameters are asked for, gen_pk
\* is not called and the key cache stays as it is, with aggregate set or not
MockProofIsEmpty ==
    [][\A aggregate \in BOOLEAN : ComputeEnds(TRUE, aggregate) =>
          /\ task_result'[1].tag = "Ok"
          /\ task_result'[1].proofs.k = ConfigOfTask.min_k
          /\ task_result'[1].proofs.k \in {20, 23}
          /\ task_result'[1].proofs.proof = FALSE
          /\ task_result'[1].proofs.agg_k = 0
          /\ task_result'[1].proofs.agg_proof = FALSE
          /\ ComputeProof(task_options[1], ConfigOfTask, 0).param_k = 0
          /\ ComputeProof(task_options[1], ConfigOfTask, 0).keys = {}
          /\ pk_cache' = pk_cache]_vars

\* a mock proof with aggregate set was computed on a node whose cache holds
\* the two keys of an earlier real proof
WitnessMockProofIsEmpty ==
    /\ pc[1] = "publish"
    /\ task_options[1].mock
    /\ task_options[1].aggregate
    /\ task_result[1].tag = "Ok"
    /\ Cardinality(pk_cache[1]) = 2

\* C35: on a task with mock unset and no parameter path, the parameters are
\* made at max(min_k, min_k_aggregation), the circuit proof has k = min_k;
\* with aggregate set the aggregation proof has k = min_k_aggregation, both
\* proofs are returned and the circuit key and the aggregation key are in the
\* cache; without it the aggregation proof is empty and the circuit key is
\* the only key added
RealProofSizes ==
    [][\A aggregate \in BOOLEAN :
          ComputeEnds(FALSE, aggregate) /\ task_options[1].param = "None" =>
          LET config == ConfigOfTask
              universe_k == IF config.min_k > config.min_k_aggregation
                            THEN config.min_k ELSE config.min_k_aggregation
              key == <<task_options[1].circuit, "", ToString(universe_k),
                       config.block_gas_limit>>
              agg_key == <<task_options[1].circuit, "-agg-", ToString(universe_k),
                           config.block_gas_limit>>
          IN  /\ task_result'[1].tag = "Ok"
              /\ ComputeProof(task_options[1], config, 0).param_k = universe_k
              /\ task_result'[1].proofs.k = config.min_k
              /\ task_result'[1].proofs.proof = TRUE
              /\ aggregate =>
                    /\ task_result'[1].proofs.agg_k = config.min_k_aggregation
                    /\ task_result'[1].proofs.agg_proof = TRUE
                    /\ pk_cache'[1] = pk_cache[1] \cup {key, agg_key}
              /\ ~aggregate =>
                    /\ task_result'[1].proofs.agg_k = 0
                    /\ task_result'[1].proofs.agg_proof = FALSE
                    /\ pk_cache'[1] = pk_cache[1] \cup {key}]_vars

\* a real proof without aggregation added one key to the cache, then a real
\* proof with aggregation of a block of the other arm added two
WitnessRealProofSizes ==
    /\ pc[1] = "publish"
    /\ ~task_options[1].mock
    /\ task_options[1].aggregate
    /\ task_result[1].tag = "Ok"
    /\ task_result[1].proofs.k = 23
    /\ task_result[1].proofs.agg_k = 26
    /\ Cardinality(pk_cache[1]) = 3

\* C36: a task whose circuit tag is unknown and whose gas used fits the
\* parameter table fails alone: once its witness is fetched the compute ends
\* with Err("unknown circuit"), the message of the panic; the publication
\* stores that Err on the task, raises its edition by one, clears pending and
\* obtained and touches no other task; the loop is then ready for its next
\* duty cycle
UnknownCircuitFailsTaskOnly ==
    /\ [][(/\ pc[1] = "compute"
           /\ pc'[1] = "publish"
           /\ task_options[1].circuit # "super"
           /\ MatchCircuitParams(BlockGasUsed(task_options[1].block)) # NoFit) =>
             /\ task_result'[1] \in {ErrResult("unknown circuit"),
                                     ErrResult("witness fetch failed")}
             /\ tasks' = tasks
             /\ pk_cache' = pk_cache
             /\ pending' = pending]_vars
    /\ [][(/\ pc[1] = "publish"
           /\ pc'[1] # "publish"
           /\ task_result[1] = ErrResult("unknown circuit")) =>
             /\ pc'[1] = "idle"
             /\ pending'[1] = NoOptions
             /\ obtained'[1] = FALSE
             /\ Len(tasks'[1]) = Len(tasks[1])
             /\ \A i \in 1..Len(tasks[1]) :
                   IF OptEq(tasks[1][i].options, task_options[1])
                   THEN tasks'[1][i] =
                          [tasks[1][i] EXCEPT !.result = ErrResult("unknown circuit"),
                                              !.edition = @ + 1]
                   ELSE tasks'[1][i] = tasks[1][i]]_vars
    /\ [](pc[1] = "idle" => ENABLED DcStart(1))

\* the task of the unknown circuit failed with the message of the panic and
\* the node proved the task enqueued after it
WitnessUnknownCircuitFailsTaskOnly ==
    /\ Len(tasks[1]) = 2
    /\ tasks[1][1].options.circuit = "pi"
    /\ tasks[1][1].result = ErrResult("unknown circuit")
    /\ tasks[1][1].edition = 1
    /\ tasks[1][2].result.tag = "Ok"
    /\ pending[1] = NoOptions
    /\ ~obtained[1]

\* C37: a step that is not a run of prune_tasks keeps every task of every
\* queue at its place with the options it was stored with: get_or_enqueue,
\* merge_tasks and the publication only append tasks and write results and
\* editions; a run of prune_tasks keeps or drops tasks and rewrites none; with
\* max_tasks 0 no step at all drops a task
TasksLeaveOnlyByPruning ==
    [][\A n \in Nodes :
          /\ (~PruneStep(n) \/ max_tasks = 0) =>
                /\ Len(tasks'[n]) >= Len(tasks[n])
                /\ \A i \in 1..Len(tasks[n]) :
                      tasks'[n][i].options = tasks[n][i].options
          /\ PruneStep(n) => TaskSet(tasks'[n]) \subseteq TaskSet(tasks[n])
          /\ Len(tasks'[n]) < Len(tasks[n]) =>
                /\ PruneStep(n)
                /\ max_tasks # 0
                /\ Len(tasks[n]) >= max_tasks]_vars

\* without pruning: a task stored with retry set failed, was retried and
\* failed again on node 1, and node 2 has it with a result from a merge
WitnessTasksLeaveOnlyByPruning ==
    /\ max_tasks = 0
    /\ \E i \in 1..Len(tasks[1]) :
          /\ tasks[1][i].options.retry
          /\ tasks[1][i].edition = 3
          /\ tasks[1][i].result.tag = "Err"
    /\ \E j \in 1..Len(tasks[2]) : tasks[2][j].result.tag # "None"

\* C38 as stated: a task that a node holds with result Ok has result Ok
\* after every step that leaves it in the queue of the node
OkIsKept ==
    [][\A n \in Nodes : \A i \in 1..Len(tasks[n]) : \A j \in 1..Len(tasks'[n]) :
          (tasks[n][i].result.tag = "Ok"
             /\ OptEq(tasks'[n][j].options, tasks[n][i].options)) =>
                tasks'[n][j].result.tag = "Ok"]_vars

PublicationFillsAbsentResult ==
    /\ [](\A n \in Nodes : pending[n] # NoOptions =>
            \A i \in 1..Len(tasks[n]) :
                OptEq(tasks[n][i].options, pending[n]) =>
                    tasks[n][i].result = NoResult)
    /\ [][\A n \in Nodes : pc[n] = "publish" /\ pc'[n] # "publish" =>
            \A i \in 1..Len(tasks[n]) :
                /\ OptEq(tasks[n][i].options, task_options[n]) =>
                      /\ tasks[n][i].result = NoResult
                      /\ tasks'[n][i].result = task_result[n]
                /\ ~OptEq(tasks[n][i].options, task_options[n]) =>
                      tasks'[n][i] = tasks[n][i]]_vars

\* node 2 is about to publish for a task without result while its queue
\* holds another task with a result that it merged from node 1
WitnessPublicationFillsAbsentResult ==
    /\ pc[2] = "publish"
    /\ Len(tasks[2]) = 2
    /\ \E i, j \in 1..2 :
          /\ OptEq(tasks[2][i].options, task_options[2])
          /\ tasks[2][i].result = NoResult
          /\ tasks[2][j].result.tag # "None"
          /\ \E k \in 1..Len(tasks[1]) : tasks[1][k] = tasks[2][j]

====
